---- MODULE Spec2Model ----
(***************************************************************************)
(* Verification model of the xynenyx LLM service:                          *)
(*   - CompletionCache            (src/app/services/cache.py)              *)
(*   - OpenAIProvider.stream      (src/app/providers/openai.py)            *)
(*   - ProviderRouter             (src/app/providers/router.py)            *)
(*   - POST /complete, /complete/stream (src/app/routers/completions.py)   *)
(*   - POST /embeddings           (src/app/routers/embeddings.py)          *)
(*   - UsageTracker.track         (src/app/tracking/usage.py)              *)
(*   - StreamingCallback          (src/app/tracking/callbacks.py)          *)
(*   - GET /health, GET /ready    (src/app/main.py)                        *)
(*                                                                         *)
(* Units: temperatures are integers in tenths (3 is 0.3, 9 is 0.9); the    *)
(* clock and time-to-live are in seconds.                                  *)
(*                                                                         *)
(* The specifications share the variables:                                 *)
(*   SpecCache   the CompletionCache API driven call by call               *)
(*   SpecKey     _get_cache_key applied to two drawn inputs                *)
(*   SpecStream  one OpenAIProvider.stream generator driven pull by pull   *)
(*   SpecRouter  one ProviderRouter driven call by call                    *)
(*   Spec        the running service answering POST /complete and          *)
(*               POST /embeddings                                          *)
(*   SpecSSE     the running service answering POST /complete/stream       *)
(*   SpecCancel  SpecSSE with callers that may disconnect                  *)
(*   SpecAPI     the three endpoints together                              *)
(*   SpecHealth  health operations of ProviderRouter and GET /providers    *)
(*   SpecStub    the placeholder providers called directly                 *)
(*   SpecCost    UsageTracker.track driven call by call                    *)
(*   SpecTasks   two coroutines calling the CompletionCache                *)
(*   SpecConc    two POST /complete handlers running concurrently          *)
(*   SpecReady   GET /health and GET /ready answered call by call          *)
(*   SpecCallback one StreamingCallback and the consumer of its queue      *)
(***************************************************************************)
EXTENDS Integers, Sequences, FiniteSets, TLC

VARIABLES
    cache,      \* CompletionCache.cache: dict cache_key -> {completion, timestamp}
    now,        \* reading of datetime.now(), seconds since start
    ret,        \* the last CompletionCache call: its arguments, its time, its return value
    lastSet,    \* history: per (messages, temperature), the last set() call since the last clear()
    gen,        \* one OpenAIProvider.stream async generator: where it is suspended, its locals
    chunks,     \* the StreamChunks that generator has yielded to its consumer, in order
    callback,   \* one StreamingCallback: its queue and usage, the calls made on it
    settings,   \* app.config.settings, fixed at process start
    providers,  \* ProviderRouter.providers: dict provider id -> provider
    ledger,     \* rows inserted into the llm_usage table, in order
    calls,      \* counters: requests handled, provider.complete / .stream / .embed / track calls
    resp,       \* the last response of POST /complete (or a rejected POST /complete/stream)
    sse,        \* the open streaming response: generate_stream's position, locals, emitted events
    tasks       \* the coroutines the event loop runs concurrently: position and locals of each

cacheVars == <<cache, now, ret, lastSet>>
streamVars == <<gen, chunks, callback>>
serviceVars == <<settings, providers, ledger, calls, resp, sse, tasks>>
vars == <<cache, now, ret, lastSet, gen, chunks, callback, settings, providers, ledger, calls, resp, sse,
          tasks>>

(***************************************************************************)
(* Bounds                                                                  *)
(***************************************************************************)
\* the clock advances in steps of TickSeconds, at most MaxTicks times
TickSeconds == 3600
MaxTicks == 2
\* at most MaxOps CompletionCache calls in one behaviour of SpecCache
MaxOps == 3
\* an upstream stream delivers at most MaxTokens chunks with content, and at
\* most MaxSkip chunks without content between two of them
MaxTokens == 3
MaxSkip == 1
\* at most MaxRequests HTTP requests in one behaviour of Spec
MaxRequests == 2
\* at most MaxCallbacks calls of StreamingCallback methods in one behaviour of SpecCallback
MaxCallbacks == 3

(***************************************************************************)
(* Python values                                                           *)
(***************************************************************************)
\* None, and the falsy test "not x" applied to an Optional value
None == <<>>
Not(x) == x = None

\* Message dicts {"role": ..., "content": ...}
Msg(r, c) == [role |-> r, content |-> c]

\* the message lists requests are drawn from: they differ in order, in one
\* message's role, and in one message's content
M1 == <<Msg("system", "Be brief"), Msg("user", "Hi")>>
M2 == <<Msg("user", "Hi"), Msg("system", "Be brief")>>
M3 == <<Msg("user", "Be brief"), Msg("user", "Hi")>>
M4 == <<Msg("system", "Be brief"), Msg("user", "Hello")>>
M5 == <<Msg("user", "Hi")>>
AllMessageLists == {M1, M2, M3, M4, M5, <<>>}
MessageLists == {M1, M2}

\* temperatures, in tenths: 0.1 and 0.3 are cache-eligible, 0.4 and 0.9 are not
AllTemperatures == {0, 1, 3, 4, 9, 20}
Temperatures == {1, 3, 4}

\* completions handed to CompletionCache.set when it is called directly
Completions == {[content |-> "R1"], [content |-> "R2"]}

(***************************************************************************)
(* CompletionCache                                                         *)
(***************************************************************************)
\* CompletionCache(ttl_seconds=3600) in routers/completions.py
ttl_seconds == 3600

\* the low-temperature threshold of _get_cache_key, 0.3, in tenths
Threshold == 3

Digit == <<"0", "1", "2", "3", "4", "5", "6", "7", "8", "9">>

\* repr of a float with one decimal, as json.dumps writes it: 0.3 -> 0 . 3
float_repr(t) ==
    <<<<"num", Digit[(t \div 10) + 1]>>, <<"num", ".">>, <<"num", Digit[(t % 10) + 1]>>>>

\* json_dumps_message serialising the content only
json_dumps_message_noRole(m) ==
    << <<"punct", "{">>,
       <<"key", "content">>, <<"str", m.content>>,
       <<"punct", "}">> >>

\* json.dumps(message, sort_keys=True): keys in sorted order, content before role
json_dumps_message(m) ==
    << <<"punct", "{">>,
       <<"key", "content">>, <<"str", m.content>>,
       <<"key", "role">>, <<"str", m.role>>,
       <<"punct", "}">> >>

\* json.dumps of the list of messages, in list order
RECURSIVE json_dumps_list(_)
json_dumps_list(ms) ==
    IF ms = <<>> THEN <<>>
    ELSE json_dumps_message(Head(ms)) \o json_dumps_list(Tail(ms))

\* json.dumps(cache_data, sort_keys=True): "messages" before "temperature"
json_dumps(messages, temperature) ==
    << <<"punct", "{">>, <<"key", "messages">>, <<"punct", "[">> >>
    \o json_dumps_list(messages)
    \o << <<"punct", "]">>, <<"key", "temperature">> >>
    \o float_repr(temperature)
    \o << <<"punct", "}">> >>

\* hashlib.sha256(...).hexdigest(): collision-free, never the empty string
sha256(s) == <<"sha256", s>>

\* _get_cache_key without the temperature test
_get_cache_key_noThreshold(messages, temperature) ==
    sha256(json_dumps(messages, temperature))

\* CompletionCache._get_cache_key
_get_cache_key(messages, temperature) ==
    IF temperature > Threshold
    THEN None
    ELSE sha256(json_dumps(messages, temperature))

\* dict operations on CompletionCache.cache
DictSet(d, k, v) == [x \in (DOMAIN d) \cup {k} |-> IF x = k THEN v ELSE d[x]]
DictDel(d, k) == [x \in (DOMAIN d) \ {k} |-> d[x]]
EmptyDict == <<>>

\* GetResult with the expiry test written >= instead of >
GetResult_expiresAtTtl(c, messages, temperature, t) ==
    LET cache_key == sha256(json_dumps(messages, temperature)) IN
    IF temperature > Threshold THEN None
    ELSE IF cache_key \notin DOMAIN c THEN None
    ELSE IF t - c[cache_key].timestamp >= ttl_seconds THEN None
    ELSE c[cache_key].completion

\* CompletionCache.get: the value it returns
GetResult(c, messages, temperature, t) ==
    LET cache_key == _get_cache_key(messages, temperature) IN
    IF Not(cache_key) THEN None
    ELSE IF cache_key \notin DOMAIN c THEN None
    ELSE IF t - c[cache_key].timestamp > ttl_seconds THEN None
    ELSE c[cache_key].completion

\* GetCache with the expiry test written >= instead of >
GetCache_evictsAtTtl(c, messages, temperature, t) ==
    LET cache_key == _get_cache_key(messages, temperature) IN
    IF Not(cache_key) THEN c
    ELSE IF cache_key \notin DOMAIN c THEN c
    ELSE IF t - c[cache_key].timestamp >= ttl_seconds THEN DictDel(c, cache_key)
    ELSE c

\* GetCache sweeping every expired entry when it finds the looked-up one expired
GetCache_sweeps(c, messages, temperature, t) ==
    LET cache_key == _get_cache_key(messages, temperature) IN
    IF Not(cache_key) THEN c
    ELSE IF cache_key \notin DOMAIN c THEN c
    ELSE IF t - c[cache_key].timestamp > ttl_seconds
         THEN [k \in {j \in DOMAIN c : t - c[j].timestamp <= ttl_seconds} |-> c[k]]
    ELSE c

\* GetCache storing a placeholder entry for a key it does not find
GetCache_marksMiss(c, messages, temperature, t) ==
    LET cache_key == _get_cache_key(messages, temperature) IN
    IF Not(cache_key) THEN c
    ELSE IF cache_key \notin DOMAIN c
         THEN DictSet(c, cache_key, [completion |-> None, timestamp |-> t])
    ELSE IF t - c[cache_key].timestamp > ttl_seconds THEN DictDel(c, cache_key)
    ELSE c

\* GetCache restamping the entry it returns (sliding expiry)
GetCache_touches(c, messages, temperature, t) ==
    LET cache_key == _get_cache_key(messages, temperature) IN
    IF Not(cache_key) THEN c
    ELSE IF cache_key \notin DOMAIN c THEN c
    ELSE IF t - c[cache_key].timestamp > ttl_seconds THEN DictDel(c, cache_key)
    ELSE DictSet(c, cache_key, [c[cache_key] EXCEPT !.timestamp = t])

\* CompletionCache.get: the map it leaves (an expired entry is deleted)
GetCache(c, messages, temperature, t) ==
    LET cache_key == _get_cache_key(messages, temperature) IN
    IF Not(cache_key) THEN c
    ELSE IF cache_key \notin DOMAIN c THEN c
    ELSE IF t - c[cache_key].timestamp > ttl_seconds THEN DictDel(c, cache_key)
    ELSE c

\* SetCache keeping an entry that is already stored (dict.setdefault)
SetCache_keepsFirst(c, messages, completion, temperature, t) ==
    LET cache_key == _get_cache_key(messages, temperature) IN
    IF Not(cache_key) THEN c
    ELSE IF cache_key \in DOMAIN c THEN c
    ELSE DictSet(c, cache_key, [completion |-> completion, timestamp |-> t])

\* CompletionCache.set: the map it leaves
SetCache(c, messages, completion, temperature, t) ==
    LET cache_key == _get_cache_key(messages, temperature) IN
    IF Not(cache_key) THEN c
    ELSE DictSet(c, cache_key, [completion |-> completion, timestamp |-> t])

\* CompletionCache.size
size(c) == Cardinality(DOMAIN c)

\* clear leaving the map as it is
clear_noop(c) == c

\* CompletionCache.clear: the map it leaves
clear(c) == EmptyDict

(***************************************************************************)
(* OpenAIProvider.stream                                                   *)
(***************************************************************************)
\* CompletionUsage
Usage(p, c, t) == [prompt_tokens |-> p, completion_tokens |-> c, total_tokens |-> t]
ZeroUsage == Usage(0, 0, 0)

\* StreamChunk(type, content="", usage=None, metadata={})
StreamChunk(type, content, usage) ==
    [type |-> type, content |-> content, usage |-> usage, metadata |-> EmptyDict]

\* what client.astream delivers: message chunks whose content may be empty and
\* whose response_metadata may carry token_usage; then it stops or raises
TokenUsages == {Usage(10, 5, 15), Usage(7, 0, 7)}
UpChunk(content, token_usage) == [kind |-> "chunk", content |-> content, token_usage |-> token_usage]
UpStop == [kind |-> "stop"]
UpRaise == [kind |-> "raise"]
UpContents == {"Hel", "lo"}
UpWithContent == {UpChunk(c, u) : c \in UpContents, u \in TokenUsages \cup {None}}
UpWithoutContent == {UpChunk("", u) : u \in TokenUsages \cup {None}}

\* str(e) of an upstream failure, and of a failing ChatOpenAI(...) construction
UpstreamErrorText == "upstream failed"
ClientErrorText == "client construction failed"

\* the generator before its first __anext__
NewStream ==
    [pc |-> "start", usage_data |-> None, last_chunk |-> None, chunk |-> None, ntokens |-> 0]

\* lines 176-183: usage_data after looking at chunk's response_metadata
ExtractUsage(usage_data, chunk) ==
    IF chunk.token_usage # None THEN chunk.token_usage ELSE usage_data

\* lines 186-204: the loop ended normally; fall back to last_chunk, yield "end"
StreamEnd(g) ==
    LET usage_data == IF g.usage_data = None /\ g.last_chunk # None
                         /\ g.last_chunk.token_usage # None
                      THEN g.last_chunk.token_usage
                      ELSE g.usage_data
    IN  [g |-> [g EXCEPT !.pc = "yield_end", !.usage_data = usage_data, !.chunk = None],
         yielded |-> StreamChunk("end", "", IF usage_data # None THEN usage_data ELSE ZeroUsage)]

\* StreamUpstreamError re-raising to the consumer, as complete() does
StreamUpstreamError_reraise(g) ==
    [g |-> [g EXCEPT !.pc = "raised", !.chunk = None], yielded |-> None]

\* lines 206-210: an exception inside the streaming loop becomes an error chunk
StreamUpstreamError(g) ==
    [g |-> [g EXCEPT !.pc = "yield_error", !.chunk = None],
     yielded |-> StreamChunk("error", UpstreamErrorText, None)]

\* lines 212-216: an exception before the loop becomes an error chunk
StreamSetupError(g) ==
    [g |-> [g EXCEPT !.pc = "yield_setup_error"],
     yielded |-> StreamChunk("error", ClientErrorText, None)]

\* lines 166-183: the async for loop, from the point where it asks astream for
\* the next chunk, fed the items astream delivers until the generator yields
RECURSIVE StreamLoop(_, _)
StreamLoop(g, items) ==
    LET item == Head(items) IN
    IF item.kind = "raise" THEN StreamUpstreamError(g)
    ELSE IF item.kind = "stop" THEN StreamEnd(g)
    ELSE IF item.content # ""
         THEN [g |-> [g EXCEPT !.pc = "yield_token", !.chunk = item,
                                !.ntokens = g.ntokens + 1],
               yielded |-> StreamChunk("token", item.content, None)]
         ELSE StreamLoop([g EXCEPT !.last_chunk = item,
                                   !.usage_data = ExtractUsage(g.usage_data, item)],
                         Tail(items))

\* one __anext__ of the generator: run it to its next yield or to its end.
\* construct_ok: ChatOpenAI(...) and _convert_messages succeed; items: what
\* astream delivers during this run.
StreamResume(g, construct_ok, items) ==
    IF g.pc = "start"
    THEN IF construct_ok THEN StreamLoop(g, items) ELSE StreamSetupError(g)
    ELSE IF g.pc = "yield_token"
    THEN \* resume after line 169: lines 173-183 for the chunk just yielded
         StreamLoop([g EXCEPT !.last_chunk = g.chunk,
                              !.usage_data = ExtractUsage(g.usage_data, g.chunk),
                              !.chunk = None],
                    items)
    ELSE \* resumed after a terminal chunk: the function body ends
         [g |-> [g EXCEPT !.pc = "done"], yielded |-> None]

\* the item sequences one run can consume: chunks without content, then one
\* chunk with content, a stop or a raise; no further content past MaxTokens
RECURSIVE SeqsUpTo(_, _)
SeqsUpTo(S, n) ==
    IF n = 0 THEN {<<>>}
    ELSE LET shorter == SeqsUpTo(S, n - 1)
         IN  shorter \cup {Append(q, x) : q \in {r \in shorter : Len(r) = n - 1}, x \in S}

Feeds(g) ==
    {Append(q, f) : q \in SeqsUpTo(UpWithoutContent, MaxSkip),
                    f \in {UpStop, UpRaise}
                          \cup (IF g.ntokens < MaxTokens THEN UpWithContent ELSE {})}

(***************************************************************************)
(* Settings and ProviderRouter                                             *)
(***************************************************************************)
\* Optional[str] values: None or Str(s); "not x" is true of None and of ""
Str(x) == [str |-> x]

\* Falsy as the test "x is None"
Falsy_isNone(x) == x = None

Falsy(x) == x = None \/ x = Str("")

\* settings.default_model
default_model == "gpt-4o-mini"

\* the settings a started process can have (Settings.validate_config passed):
\* OpenAI enabled with a real key, and OpenAI disabled with Anthropic enabled
\* and configured
ServiceSettings ==
    { [openai_enabled |-> TRUE, openai_api_key |-> Str("sk-live-0123456789abcdef"),
       anthropic_enabled |-> FALSE, anthropic_api_key |-> None,
       google_enabled |-> FALSE, google_api_key |-> None],
      [openai_enabled |-> FALSE, openai_api_key |-> Str("sk-live-0123456789abcdef"),
       anthropic_enabled |-> TRUE, anthropic_api_key |-> Str("sk-ant-0123456789abcdef"),
       google_enabled |-> FALSE, google_api_key |-> None] }

\* Settings.validate_config, its OpenAI part (the Supabase settings are taken
\* as valid): an enabled OpenAI needs a key of at least 20 characters that is
\* not the "sk-your..." placeholder
PlaceholderKeys == {"sk-your-openai-api-key-here"}
validate_config(cfg) ==
    cfg.openai_enabled
    => /\ ~Falsy(cfg.openai_api_key)
       /\ cfg.openai_api_key.str \notin PlaceholderKeys
       /\ Len(cfg.openai_api_key.str) >= 20

\* every settings object a process can start with
OpenAIKeys == {Str(""), Str("sk-short"), Str("sk-your-openai-api-key-here"),
               Str("sk-live-0123456789abcdef")}
RouterSettings ==
    {cfg \in [openai_enabled : BOOLEAN, openai_api_key : OpenAIKeys,
              anthropic_enabled : BOOLEAN,
              anthropic_api_key : {None, Str("sk-ant-0123456789abcdef")},
              google_enabled : BOOLEAN,
              google_api_key : {None, Str("AIza0123456789abcdef")}] :
        validate_config(cfg)}

\* OpenAIProvider(): BaseProvider(name="openai"), default_model from settings;
\* instance: the identity of the object constructed at router.py line 19
OpenAIProvider == [name |-> "openai", default_model |-> default_model, instance |-> 1]

\* ProviderRouter.__init__ registering OpenAI whenever a key is set
ProviderRouter_ignoresEnabled(cfg) ==
    IF ~Falsy(cfg.openai_api_key)
    THEN [id \in {"openai"} |-> OpenAIProvider]
    ELSE EmptyDict

\* ProviderRouter.__init__: only the OpenAI provider is ever registered
ProviderRouter(cfg) ==
    IF cfg.openai_enabled /\ ~Falsy(cfg.openai_api_key)
    THEN [id \in {"openai"} |-> OpenAIProvider]
    ELSE EmptyDict

\* outcome of a call: a returned value or a raised exception
NoException == "none"
Return(v) == [raised |-> NoException, value |-> v]
Raise(type, msg) == [raised |-> type, msg |-> msg]

\* get_provider falling back to the default provider for an unknown id
get_provider_fallback(provs, provider_id) ==
    IF provider_id = None \/ provider_id.str \notin DOMAIN provs
    THEN IF "openai" \in DOMAIN provs
         THEN Return(provs["openai"])
         ELSE Raise("ValueError", "No providers available")
    ELSE Return(provs[provider_id.str])

\* get_provider looking the id up with dict.get: None for an unknown id
get_provider_dictGet(provs, provider_id) ==
    IF provider_id = None
    THEN IF "openai" \in DOMAIN provs
         THEN Return(provs["openai"])
         ELSE Raise("ValueError", "No providers available")
    ELSE IF provider_id.str \notin DOMAIN provs
         THEN Return(None)
         ELSE Return(provs[provider_id.str])

\* get_provider constructing a new OpenAIProvider() for the default
get_provider_newInstance(provs, provider_id) ==
    IF provider_id = None
    THEN IF "openai" \in DOMAIN provs
         THEN Return([OpenAIProvider EXCEPT !.instance = 2])
         ELSE Raise("ValueError", "No providers available")
    ELSE IF provider_id.str \notin DOMAIN provs
         THEN Raise("ValueError", "Provider '" \o provider_id.str \o "' not found or not enabled")
         ELSE Return(provs[provider_id.str])

\* get_provider without the branch for None: None is looked up like any id
get_provider_noDefault(provs, provider_id) ==
    IF provider_id = None
    THEN Raise("ValueError", "Provider 'None' not found or not enabled")
    ELSE IF provider_id.str \notin DOMAIN provs
         THEN Raise("ValueError", "Provider '" \o provider_id.str \o "' not found or not enabled")
         ELSE Return(provs[provider_id.str])

\* ProviderRouter.get_provider
get_provider(provs, provider_id) ==
    IF provider_id = None
    THEN IF "openai" \in DOMAIN provs
         THEN Return(provs["openai"])
         ELSE Raise("ValueError", "No providers available")
    ELSE IF provider_id.str \notin DOMAIN provs
         THEN Raise("ValueError", "Provider '" \o provider_id.str \o "' not found or not enabled")
         ELSE Return(provs[provider_id.str])

\* get_provider registering a provider under an id it does not find
get_provider_providers_registers(provs, provider_id) ==
    IF provider_id # None /\ provider_id.str \notin DOMAIN provs
    THEN [id \in DOMAIN provs \cup {provider_id.str} |->
             IF id \in DOMAIN provs THEN provs[id] ELSE OpenAIProvider]
    ELSE provs

\* ProviderRouter.get_provider: the mapping it leaves; `in` and subscript on
\* the dict read it, nothing is assigned
get_provider_providers(provs, provider_id) == provs

\* OpenAIProvider.get_supported_models
get_supported_models ==
    <<"gpt-4o", "gpt-4o-mini", "gpt-4-turbo", "gpt-4", "gpt-3.5-turbo",
      "text-embedding-ada-002">>

\* provider.get_supported_models(): OpenAIProvider overrides it, the other
\* providers inherit BaseProvider.get_supported_models, which returns []
supported_models(provider) ==
    IF provider.name = "openai" THEN get_supported_models ELSE <<>>

\* ProviderRouter.list_providers
list_providers(provs) ==
    [provider_id \in DOMAIN provs |->
        [id |-> provider_id, name |-> provs[provider_id].name, enabled |-> TRUE,
         models |-> supported_models(provs[provider_id]), healthy |-> FALSE]]

\* OpenAIProvider.health_check: whether the API key (settings.openai_api_key) is set
health_check(cfg) == ~Falsy(cfg.openai_api_key)

\* AnthropicProvider(), GeminiProvider(): BaseProvider(name, timeout=60)
AnthropicProvider == [name |-> "anthropic", timeout |-> 60]
GeminiProvider == [name |-> "gemini", timeout |-> 60]

\* what awaiting health_check() gives for each registered provider of a router
\* built from cfg: only OpenAIProvider is registered, its health_check returns
HealthChecks(provs, cfg) == [id \in DOMAIN provs |-> Return(health_check(cfg))]

\* check_provider_health without the try/except around the health check
check_provider_health_noTry(provs, health, provider_id) ==
    IF provider_id \notin DOMAIN provs
    THEN Return(FALSE)
    ELSE health[provider_id]

\* ProviderRouter.check_provider_health; health[id] is the outcome of awaiting
\* self.providers[id].health_check() at the time of the call
check_provider_health(provs, health, provider_id) ==
    IF provider_id \notin DOMAIN provs
    THEN Return(FALSE)
    ELSE IF health[provider_id].raised # NoException
         THEN Return(FALSE)
         ELSE Return(health[provider_id].value)

\* dict iteration order of self.providers: the order of insertion in __init__
InsertionOrder == <<"openai", "anthropic", "gemini">>
provider_ids(provs) == SelectSeq(InsertionOrder, LAMBDA id : id \in DOMAIN provs)

\* ProviderRouter.check_all_health: check_provider_health for every registered
\* id in turn; an exception of one of them would end the loop and propagate
check_all_health(provs, health) ==
    LET raising == SelectSeq(provider_ids(provs), LAMBDA id :
                       check_provider_health(provs, health, id).raised # NoException)
    IN  IF raising # <<>>
        THEN check_provider_health(provs, health, Head(raising))
        ELSE Return([id \in DOMAIN provs |-> check_provider_health(provs, health, id).value])

\* ProviderInfo, the schema of one entry of GET /providers
ProviderInfo(id, name, enabled, healthy, models) ==
    [id |-> id, name |-> name, enabled |-> enabled, healthy |-> healthy,
     models |-> models, metadata |-> EmptyDict]

\* GET /providers taking healthy from the router's listing
api_list_providers_noHealth(provs, health) ==
    LET providers_dict == list_providers(provs)
        ids == provider_ids(provs)
    IN  Return([status |-> 200,
                providers |-> [i \in 1..Len(ids) |->
                    ProviderInfo(ids[i], providers_dict[ids[i]].name,
                                 providers_dict[ids[i]].enabled,
                                 providers_dict[ids[i]].healthy,
                                 providers_dict[ids[i]].models)]])

\* GET /providers (routers/providers.py list_providers): the router's listing
\* with healthy replaced by health_status.get(provider_id, False); an exception
\* leaving the handler is answered 500 by the framework
api_list_providers(provs, health) ==
    LET providers_dict == list_providers(provs)
        health_status == check_all_health(provs, health)
        ids == provider_ids(provs)
    IN  IF health_status.raised # NoException
        THEN [raised |-> health_status.raised, msg |-> health_status.msg, status |-> 500]
        ELSE Return([status |-> 200,
                     providers |-> [i \in 1..Len(ids) |->
                         ProviderInfo(ids[i], providers_dict[ids[i]].name,
                                      providers_dict[ids[i]].enabled,
                                      health_status.value[ids[i]],
                                      providers_dict[ids[i]].models)]])

(***************************************************************************)
(* UsageTracker                                                            *)
(***************************************************************************)
\* settings.cost_rates.get(model, zero rates): per 1K tokens, in units of 1e-6 USD
cost_rates(model) ==
    IF model = "gpt-4o-mini" THEN [input |-> 150, output |-> 600]
    ELSE IF model = "gpt-4o" THEN [input |-> 5000, output |-> 15000]
    ELSE IF model = "text-embedding-ada-002" THEN [input |-> 100, output |-> 0]
    ELSE IF model = "claude-3-haiku-20240307" THEN [input |-> 250, output |-> 1250]
    ELSE IF model = "gemini-1.5-flash" THEN [input |-> 75, output |-> 300]
    ELSE [input |-> 0, output |-> 0]

\* _calculate_cost multiplying the token counts of the usage by the input rate
_calculate_cost_inputRateOnly(provider, model, usage) ==
    (usage.prompt_tokens + usage.completion_tokens) * cost_rates(model).input

\* UsageTracker._calculate_cost, in units of 1e-9 USD
_calculate_cost(provider, model, usage) ==
    usage.prompt_tokens * cost_rates(model).input
    + usage.completion_tokens * cost_rates(model).output

\* track inserting one row for the prompt tokens and one for the completion tokens
track_twoRows(rows, user_id, conversation_id, provider, model, usage, metadata, insert_ok) ==
    IF insert_ok
    THEN LET row == [user_id |-> user_id, conversation_id |-> conversation_id,
                     provider |-> provider, model |-> model,
                     prompt_tokens |-> usage.prompt_tokens,
                     completion_tokens |-> usage.completion_tokens,
                     cost_usd |-> _calculate_cost(provider, model, usage),
                     metadata |-> metadata]
         IN  Append(Append(rows, [row EXCEPT !.completion_tokens = 0]),
                    [row EXCEPT !.prompt_tokens = 0])
    ELSE rows

\* UsageTracker.track: the ledger it leaves. insert_ok: the Supabase insert
\* succeeds; a failing insert is caught and printed
track(rows, user_id, conversation_id, provider, model, usage, metadata, insert_ok) ==
    IF insert_ok
    THEN Append(rows, [user_id |-> user_id, conversation_id |-> conversation_id,
                       provider |-> provider, model |-> model,
                       prompt_tokens |-> usage.prompt_tokens,
                       completion_tokens |-> usage.completion_tokens,
                       cost_usd |-> _calculate_cost(provider, model, usage),
                       metadata |-> metadata])
    ELSE rows

(***************************************************************************)
(* POST /complete                                                          *)
(***************************************************************************)
\* the fields of schemas.completions.CompletionRequest
CompletionRequestFields == {"messages", "provider", "model", "temperature", "max_tokens"}

\* reading request.<field>: pydantic raises AttributeError for an undeclared field
HasField(field) == field \in CompletionRequestFields

\* the keyword parameters of OpenAIProvider.complete and OpenAIProvider.stream
ProviderParams == {"messages", "model", "temperature", "max_tokens"}

\* the keyword arguments the handlers pass to provider.complete / provider.stream
HandlerKwargs == {"messages", "model", "temperature", "max_tokens", "response_format"}

\* what the upstream API answers to a completion
UpstreamContent == "Hello there"
UpstreamUsage == Usage(10, 5, 15)

\* OpenAIProvider.complete: any upstream failure is re-raised as ValueError
OpenAIComplete(request, upstream_ok) ==
    IF upstream_ok
    THEN Return([content |-> UpstreamContent,
                 usage |-> UpstreamUsage,
                 model |-> IF request.model = None THEN default_model ELSE request.model.str,
                 metadata |-> [finish_reason |-> "stop"]])
    ELSE Raise("ValueError", "OpenAI completion error")

UsageDict(u) ==
    [prompt_tokens |-> u.prompt_tokens, completion_tokens |-> u.completion_tokens,
     total_tokens |-> u.total_tokens]

\* HTTPException(status_code, detail)
HTTPException(status, detail) == [status |-> status, detail |-> detail]

\* the 200 answer of POST /complete
CompletionResponse(provider, content, model, usage, metadata) ==
    [status |-> 200, provider |-> provider, content |-> content, model |-> model,
     usage |-> usage, metadata |-> metadata]

\* the effect-free part of an outcome
Unchanged(c, l, k) == [cache |-> c, ledger |-> l, calls |-> k]

\* the handler `complete`, lines 35-107: its answer and the cache, ledger and
\* call counters it leaves
complete(request, x_user_id, x_conversation_id, upstream_ok, insert_ok) ==
    IF Falsy(x_user_id)
    THEN [answer |-> HTTPException(400, "X-User-ID header required")]
         @@ Unchanged(cache, ledger, calls)
    ELSE
    LET messages == request.messages
        cached_response == GetResult(cache, messages, request.temperature, now)
        cache1 == GetCache(cache, messages, request.temperature, now)
        found == get_provider(providers, request.provider)
    IN
    IF cached_response # None
    THEN [answer |-> CompletionResponse(cached_response.provider, cached_response.content,
                                        cached_response.model, cached_response.usage,
                                        cached_response.metadata)]
         @@ Unchanged(cache1, ledger, calls)
    ELSE IF found.raised # NoException
    THEN [answer |-> HTTPException(400, found.msg)] @@ Unchanged(cache1, ledger, calls)
    ELSE IF ~HasField("response_format")
    THEN \* request.response_format: AttributeError, caught by "except Exception"
         [answer |-> HTTPException(500, "Internal server error: no attribute response_format")]
         @@ Unchanged(cache1, ledger, calls)
    ELSE IF ~(HandlerKwargs \subseteq ProviderParams)
    THEN \* provider.complete(..., response_format=...): TypeError
         [answer |-> HTTPException(500, "Internal server error: unexpected keyword argument")]
         @@ Unchanged(cache1, ledger, calls)
    ELSE
    LET provider == found.value
        calls1 == [calls EXCEPT !.complete = @ + 1]
        called == OpenAIComplete(request, upstream_ok)
    IN
    IF called.raised # NoException
    THEN [answer |-> HTTPException(400, called.msg)] @@ Unchanged(cache1, ledger, calls1)
    ELSE
    LET response == called.value
        cache2 == SetCache(cache1, messages,
                           [provider |-> provider.name, content |-> response.content,
                            model |-> response.model, usage |-> UsageDict(response.usage),
                            metadata |-> response.metadata],
                           request.temperature, now)
        ledger2 == track(ledger, x_user_id.str, x_conversation_id, provider.name,
                         response.model, response.usage, response.metadata, insert_ok)
    IN  [answer |-> CompletionResponse(provider.name, response.content, response.model,
                                       UsageDict(response.usage), response.metadata)]
        @@ Unchanged(cache2, ledger2, [calls1 EXCEPT !.track = @ + 1])

(***************************************************************************)
(* POST /embeddings                                                        *)
(***************************************************************************)
\* settings.default_embedding_model
default_embedding_model == "text-embedding-ada-002"

\* the vector the upstream API answers to an embedding request
UpstreamEmbedding == <<1, 2, 3>>

\* OpenAIProvider.embed: the usage is estimated as len(text) // 4 prompt tokens;
\* any upstream failure is re-raised as ValueError
OpenAIEmbed(request, upstream_ok) ==
    IF upstream_ok
    THEN LET embedding_model == IF Falsy(request.model) THEN default_embedding_model
                                ELSE request.model.str
             estimated_tokens == Len(request.text) \div 4
         IN  Return([embedding |-> UpstreamEmbedding,
                     model |-> embedding_model,
                     usage |-> Usage(estimated_tokens, 0, estimated_tokens),
                     metadata |-> EmptyDict])
    ELSE Raise("ValueError", "OpenAI embedding error")

\* the 200 answer of POST /embeddings
EmbeddingResponse(provider, embedding, model, usage, metadata) ==
    [status |-> 200, provider |-> provider, embedding |-> embedding, model |-> model,
     usage |-> usage, metadata |-> metadata]

\* create_embedding in which an insert failure escapes UsageTracker.track and
\* reaches the handler's "except Exception"
create_embedding_trackRaises(request, x_user_id, x_conversation_id, upstream_ok, insert_ok) ==
    IF Falsy(x_user_id)
    THEN [answer |-> HTTPException(400, "X-User-ID header required")]
         @@ Unchanged(cache, ledger, calls)
    ELSE
    LET found == get_provider(providers, request.provider)
        embedded == OpenAIEmbed(request, upstream_ok)
        calls1 == [calls EXCEPT !.embed = @ + 1]
    IN
    IF found.raised # NoException
    THEN [answer |-> HTTPException(400, found.msg)] @@ Unchanged(cache, ledger, calls)
    ELSE IF embedded.raised # NoException
    THEN [answer |-> HTTPException(400, embedded.msg)] @@ Unchanged(cache, ledger, calls1)
    ELSE IF ~insert_ok
    THEN [answer |-> HTTPException(500, "Internal server error: insert failed")]
         @@ Unchanged(cache, ledger, [calls1 EXCEPT !.track = @ + 1])
    ELSE
    LET response == embedded.value IN
        [answer |-> EmbeddingResponse(found.value.name, response.embedding, response.model,
                                      UsageDict(response.usage), response.metadata)]
        @@ Unchanged(cache,
                     track(ledger, x_user_id.str, x_conversation_id, found.value.name,
                           response.model, response.usage, response.metadata, insert_ok),
                     [calls1 EXCEPT !.track = @ + 1])

\* the handler `create_embedding`, embeddings.py lines 27-64: its answer and
\* the cache, ledger and call counters it leaves. The module builds its own
\* ProviderRouter from the same settings: its mapping equals `providers`
create_embedding(request, x_user_id, x_conversation_id, upstream_ok, insert_ok) ==
    IF Falsy(x_user_id)
    THEN [answer |-> HTTPException(400, "X-User-ID header required")]
         @@ Unchanged(cache, ledger, calls)
    ELSE
    LET found == get_provider(providers, request.provider)
        embedded == OpenAIEmbed(request, upstream_ok)
        calls1 == [calls EXCEPT !.embed = @ + 1]
    IN
    IF found.raised # NoException
    THEN [answer |-> HTTPException(400, found.msg)] @@ Unchanged(cache, ledger, calls)
    ELSE IF embedded.raised # NoException
    THEN [answer |-> HTTPException(400, embedded.msg)] @@ Unchanged(cache, ledger, calls1)
    ELSE
    LET response == embedded.value IN
        [answer |-> EmbeddingResponse(found.value.name, response.embedding, response.model,
                                      UsageDict(response.usage), response.metadata)]
        @@ Unchanged(cache,
                     track(ledger, x_user_id.str, x_conversation_id, found.value.name,
                           response.model, response.usage, response.metadata, insert_ok),
                     [calls1 EXCEPT !.track = @ + 1])

(***************************************************************************)
(* POST /complete/stream                                                   *)
(***************************************************************************)
\* no streaming response is open
NoStream == [pc |-> "idle", events |-> <<>>]

\* generate_stream's locals (provider_name and model_name are None or Str(s);
\* chunk_type is the type of the chunk forwarded last). History: `provided`, the chunks provider.stream
\* has yielded to the loop so far; `tracked`, the usage of each track call made.
\* What the collaborators do during this response: upstream_ok, the upstream
\* stream is set up and runs to its end without failing; insert_ok, the ledger
\* insert succeeds.

\* generate_stream() before its first __anext__: lines 126-128
NewGenerateStream(request, x_user_id, x_conversation_id, upstream_ok, insert_ok) ==
    [pc |-> "start", request |-> request, x_user_id |-> x_user_id,
     x_conversation_id |-> x_conversation_id, events |-> <<>>,
     usage_data |-> None, provider_name |-> None, model_name |-> None,
     provider |-> None, stream |-> None, chunk_type |-> "",
     provided |-> <<>>, tracked |-> <<>>,
     upstream_ok |-> upstream_ok, insert_ok |-> insert_ok]

\* lines 156-169: the event written for one StreamChunk (chunk.metadata is empty)
ChunkEvent(chunk) ==
    IF chunk.usage # None
    THEN [type |-> chunk.type, content |-> chunk.content, usage |-> UsageDict(chunk.usage)]
    ELSE [type |-> chunk.type, content |-> chunk.content]

\* ErrorEvent writing the event without the "error" type tag
ErrorEvent_untyped(exc) ==
    [type |-> "message", content |-> exc.msg]

\* lines 185-190: the event written by the except clauses
ErrorEvent(exc) ==
    IF exc.raised = "ValueError"
    THEN [type |-> "error", content |-> exc.msg]
    ELSE [type |-> "error", content |-> "Internal server error: " \o exc.msg]

\* the outcome of one run of generate_stream
GenOutcome(g, l, k) == [g |-> g, ledger |-> l, calls |-> k]

\* GenExcept with except clauses that only log
GenExcept_silent(g, exc, l, k) ==
    GenOutcome([g EXCEPT !.pc = "done"], l, k)

\* lines 185-190: an exception inside the try block: one error event, then the
\* generator is suspended in the except clause
GenExcept(g, exc, l, k) ==
    GenOutcome([g EXCEPT !.pc = "yield_except", !.events = Append(@, ErrorEvent(exc))], l, k)

\* lines 175-183, then the end of the function body
GenAfterLoop(g, l, k) ==
    IF g.usage_data # None /\ g.provider_name # None /\ g.model_name # None
    THEN GenOutcome([g EXCEPT !.pc = "done", !.tracked = Append(@, g.usage_data)],
                    track(l, g.x_user_id.str, g.x_conversation_id, g.provider_name.str,
                          g.model_name.str, g.usage_data, EmptyDict, g.insert_ok),
                    [k EXCEPT !.track = @ + 1])
    ELSE GenOutcome([g EXCEPT !.pc = "done"], l, k)

\* GenAfterExcept with a finally clause that closes the stream with an end event
GenAfterExcept_finallyEnd(g, l, k) ==
    GenOutcome([g EXCEPT !.pc = "done",
                         !.events = Append(@, [type |-> "end", content |-> ""])], l, k)

\* generate_stream resumed inside an except clause: the function body ends
GenAfterExcept(g, l, k) ==
    GenOutcome([g EXCEPT !.pc = "done"], l, k)

\* GenClose with a finally clause that records the usage seen so far
GenClose_tracks(g, l, k) ==
    LET usage == IF g.usage_data = None THEN ZeroUsage ELSE g.usage_data
        name == IF g.provider_name = None THEN "unknown" ELSE g.provider_name.str
    IN  GenOutcome([g EXCEPT !.pc = "done", !.cancelled = TRUE,
                             !.tracked = Append(@, usage)],
                   track(l, g.x_user_id.str, g.x_conversation_id, name, default_model,
                         usage, EmptyDict, g.insert_ok),
                   [k EXCEPT !.track = @ + 1])

\* the caller disconnects: the response's task is cancelled and generate_stream
\* is closed where it is suspended (before its first __anext__, at the yield of
\* line 169 or at a yield of lines 187, 190). GeneratorExit and CancelledError
\* are not Exceptions: no except clause of lines 185-190 runs, there is no
\* finally clause, nothing after the loop runs; provider.stream is not resumed
GenClose(g, l, k) ==
    GenOutcome([g EXCEPT !.pc = "done", !.cancelled = TRUE], l, k)

\* lines 139-169: ask provider.stream for its next chunk and forward it
GenLoop(g, l, k, construct_ok, items) ==
    LET r == StreamResume(g.stream, construct_ok, items)
        chunk == r.yielded
        named == IF g.request.model = None THEN Str(g.provider.default_model)
                 ELSE g.request.model
    IN
    IF chunk = None
    THEN GenAfterLoop([g EXCEPT !.stream = r.g], l, k)
    ELSE GenOutcome(
           [g EXCEPT !.stream = r.g,
                     !.model_name = IF (g.model_name = None /\ chunk.type = "token")
                                       \/ (chunk.type = "end" /\ chunk.usage # None)
                                    THEN named ELSE @,
                     !.usage_data = IF chunk.type = "end" /\ chunk.usage # None
                                    THEN chunk.usage ELSE @,
                     !.chunk_type = chunk.type,
                     !.provided = Append(@, chunk),
                     !.events = Append(@, ChunkEvent(chunk)),
                     !.pc = "yield_chunk"],
           l, k)

\* one __anext__ of generate_stream, lines 124-190: run it to its next yield or
\* to its end
generate_stream(g, l, k, construct_ok, items) ==
    IF g.pc = "start"
    THEN LET found == get_provider(providers, g.request.provider) IN
         IF found.raised # NoException THEN GenExcept(g, found, l, k)
         ELSE LET g1 == [g EXCEPT !.provider = found.value,
                                  !.provider_name = Str(found.value.name)]
              IN  IF ~HasField("response_format")
                  THEN \* request.response_format: AttributeError
                       GenExcept(g1, Raise("AttributeError", "no attribute response_format"), l, k)
                  ELSE IF ~(HandlerKwargs \subseteq ProviderParams)
                  THEN \* provider.stream(..., response_format=...): TypeError
                       GenExcept(g1, Raise("TypeError", "unexpected keyword argument"), l, k)
                  ELSE GenLoop([g1 EXCEPT !.stream = NewStream], l,
                               [k EXCEPT !.stream = @ + 1],
                               construct_ok, items)
    ELSE IF g.pc = "yield_chunk"
    THEN IF g.chunk_type \in {"error", "end"}
         THEN GenAfterLoop(g, l, k)
         ELSE GenLoop(g, l, k, construct_ok, items)
    ELSE GenAfterExcept(g, l, k)

(***************************************************************************)
(* Initial states of the three parts                                       *)
(***************************************************************************)
NoResponse == [endpoint |-> "none"]

\* no coroutine is being followed
NoTasks == <<>>

DefaultSettings ==
    CHOOSE cfg \in ServiceSettings : cfg.openai_enabled

ServiceInitFrom(configurations) ==
    /\ settings \in configurations
    /\ providers = ProviderRouter(settings)
    /\ ledger = <<>>
    /\ calls = [requests |-> 0, complete |-> 0, stream |-> 0, embed |-> 0, track |-> 0]
    /\ resp = NoResponse
    /\ sse = NoStream
    /\ tasks = NoTasks

(***************************************************************************)
(* StreamingCallback (tracking/callbacks.py)                               *)
(***************************************************************************)
\* a dict value that is None (None itself, the empty tuple, equals the empty dict)
NullValue == [null |-> TRUE]

\* dict.get(key, default)
dict_get(d, key, default) == IF key \in DOMAIN d THEN d[key] ELSE default

\* lines 13-21. History: `invocations`, the callback methods called so far with
\* their argument; `got`, the chunks taken from the queue so far
StreamingCallback(queue) ==
    [queue |-> queue, usage |-> None, invocations |-> <<>>, got |-> <<>>]

\* lines 23-30; asyncio.Queue() has no size limit: put never waits
on_llm_new_token(self, token) ==
    Return([self EXCEPT !.queue = Append(@, StreamChunk("token", token, None))])

\* lines 32-45: a None or empty llm_output is falsy; a token_usage of None has
\* no .get
on_llm_end(self, response) ==
    LET usage_metadata == IF response.llm_output # EmptyDict
                          THEN dict_get(response.llm_output, "token_usage", EmptyDict)
                          ELSE EmptyDict
    IN
    IF usage_metadata = NullValue
    THEN Raise("AttributeError", "'NoneType' object has no attribute 'get'")
    ELSE LET usage == Usage(dict_get(usage_metadata, "prompt_tokens", 0),
                            dict_get(usage_metadata, "completion_tokens", 0),
                            dict_get(usage_metadata, "total_tokens", 0))
         IN  Return([self EXCEPT !.usage = usage,
                                 !.queue = Append(@, StreamChunk("end", "", usage))])

\* lines 47-54: error is given by its text, str(error)
on_llm_error(self, error) ==
    Return([self EXCEPT !.queue = Append(@, StreamChunk("error", error, None))])

(***************************************************************************)
(* SpecStream: one OpenAIProvider.stream generator, one __anext__ per step *)
(***************************************************************************)
StreamInit ==
    /\ gen = NewStream
    /\ chunks = <<>>
    /\ callback = StreamingCallback(<<>>)

\* the consumer asks for the next chunk
StreamPull(construct_ok, items) ==
    /\ gen.pc # "done"
    /\ LET r == StreamResume(gen, construct_ok, items) IN
       /\ gen' = r.g
       /\ chunks' = IF r.yielded = None THEN chunks ELSE Append(chunks, r.yielded)
    /\ UNCHANGED <<cacheVars, callback, serviceVars>>

StreamNext ==
    \E construct_ok \in BOOLEAN, items \in Feeds(gen) : StreamPull(construct_ok, items)

(***************************************************************************)
(* SpecCache: the CompletionCache API, one call per step                   *)
(***************************************************************************)
NoCall == [op |-> "none", n |-> 0]

CacheInit ==
    /\ cache = EmptyDict
    /\ now = 0
    /\ ret = NoCall
    /\ lastSet = [p \in MessageLists \X Temperatures |-> None]

\* datetime.now() moves on
Tick ==
    /\ now < MaxTicks * TickSeconds
    /\ now' = now + TickSeconds
    /\ UNCHANGED <<cache, ret, lastSet, streamVars, serviceVars>>

CacheGet(messages, temperature) ==
    /\ ret.n < MaxOps
    /\ cache' = GetCache(cache, messages, temperature, now)
    /\ ret' = [op |-> "get", n |-> ret.n + 1, messages |-> messages,
               temperature |-> temperature, at |-> now,
               result |-> GetResult(cache, messages, temperature, now),
               sizeBefore |-> size(cache)]
    /\ UNCHANGED <<now, lastSet, streamVars, serviceVars>>

CacheSet(messages, completion, temperature) ==
    /\ ret.n < MaxOps
    /\ cache' = SetCache(cache, messages, completion, temperature, now)
    /\ ret' = [op |-> "set", n |-> ret.n + 1, messages |-> messages,
               temperature |-> temperature, at |-> now,
               result |-> None, sizeBefore |-> size(cache)]
    /\ lastSet' = [lastSet EXCEPT ![<<messages, temperature>>] =
                       [completion |-> completion, at |-> now]]
    /\ UNCHANGED <<now, streamVars, serviceVars>>

CacheClear ==
    /\ ret.n < MaxOps
    /\ cache' = clear(cache)
    /\ ret' = [op |-> "clear", n |-> ret.n + 1, messages |-> <<>>,
               temperature |-> 0, at |-> now,
               result |-> None, sizeBefore |-> size(cache)]
    /\ lastSet' = [p \in MessageLists \X Temperatures |-> None]
    /\ UNCHANGED <<now, streamVars, serviceVars>>

CacheSpecInit ==
    /\ CacheInit
    /\ StreamInit
    /\ ServiceInitFrom({DefaultSettings})

CacheNext ==
    \/ Tick
    \/ \E m \in MessageLists, t \in Temperatures : CacheGet(m, t)
    \/ \E m \in MessageLists, c \in Completions, t \in Temperatures : CacheSet(m, c, t)
    \/ CacheClear

SpecCache == CacheSpecInit /\ [][CacheNext]_vars

(***************************************************************************)
(* SpecKey: _get_cache_key applied to two drawn (messages, temperature)    *)
(* pairs                                                                   *)
(***************************************************************************)
KeyInputs == AllMessageLists \X AllTemperatures

KeyInit ==
    /\ cache = EmptyDict
    /\ now = 0
    /\ lastSet = [p \in MessageLists \X Temperatures |-> None]
    /\ ret \in {[op |-> "args", n |-> 0, a |-> a, b |-> b] : a \in KeyInputs, b \in KeyInputs}
    /\ StreamInit
    /\ ServiceInitFrom({DefaultSettings})

KeyCall ==
    /\ ret.op = "args"
    /\ ret' = [op |-> "keys", n |-> 1, a |-> ret.a, b |-> ret.b,
               ka |-> _get_cache_key(ret.a[1], ret.a[2]),
               kb |-> _get_cache_key(ret.b[1], ret.b[2])]
    /\ UNCHANGED <<cache, now, lastSet, streamVars, serviceVars>>

KeyNext == KeyCall

SpecKey == KeyInit /\ [][KeyNext]_vars

(***************************************************************************)
(* SpecRouter: one ProviderRouter built from any valid settings, one call  *)
(* per step                                                                *)
(***************************************************************************)
\* the provider ids callers pass
RouterIds == {None, Str("openai"), Str("anthropic"), Str("gemini"), Str("nonexistent")}

\* history kept in `ret`: defaults, the providers get_provider(None) has returned
DefaultsSoFar == IF ret.op = "none" THEN {} ELSE ret.defaults

RouterInit ==
    /\ CacheInit
    /\ StreamInit
    /\ ServiceInitFrom(RouterSettings)

GetProvider(provider_id) ==
    /\ ret.n < MaxOps
    /\ LET result == get_provider(providers, provider_id) IN
       ret' = [op |-> "get_provider", n |-> ret.n + 1, provider_id |-> provider_id,
               result |-> result,
               defaults |-> IF provider_id = None /\ result.raised = NoException
                            THEN DefaultsSoFar \cup {result.value}
                            ELSE DefaultsSoFar]
    /\ providers' = get_provider_providers(providers, provider_id)
    /\ UNCHANGED <<cache, now, lastSet, streamVars, settings, ledger, calls, resp, sse, tasks>>

ListProviders ==
    /\ ret.n < MaxOps
    /\ ret' = [op |-> "list_providers", n |-> ret.n + 1, provider_id |-> None,
               result |-> Return(list_providers(providers)),
               defaults |-> DefaultsSoFar]
    /\ UNCHANGED <<cache, now, lastSet, streamVars, serviceVars>>

CheckProviderHealth(provider_id) ==
    /\ ret.n < MaxOps
    /\ ret' = [op |-> "check_provider_health", n |-> ret.n + 1,
               provider_id |-> provider_id,
               result |-> check_provider_health(providers,
                                                HealthChecks(providers, settings),
                                                provider_id.str),
               defaults |-> DefaultsSoFar]
    /\ UNCHANGED <<cache, now, lastSet, streamVars, serviceVars>>

CheckAllHealth ==
    /\ ret.n < MaxOps
    /\ ret' = [op |-> "check_all_health", n |-> ret.n + 1, provider_id |-> None,
               result |-> check_all_health(providers, HealthChecks(providers, settings)),
               defaults |-> DefaultsSoFar]
    /\ UNCHANGED <<cache, now, lastSet, streamVars, serviceVars>>

RouterNext ==
    \/ \E provider_id \in RouterIds : GetProvider(provider_id)
    \/ ListProviders
    \/ \E provider_id \in RouterIds \ {None} : CheckProviderHealth(provider_id)
    \/ CheckAllHealth

SpecRouter == RouterInit /\ [][RouterNext]_vars

\* api_get_provider answering from the static listing, without a health check
api_get_provider_noHealth(provs, health, provider_id) ==
    LET found == get_provider(provs, provider_id) IN
    IF found.raised = "ValueError"
    THEN HTTPException(404, found.msg)
    ELSE [status |-> 200,
          body |-> ProviderInfo(provider_id.str, found.value.name, TRUE,
                                list_providers(provs)[provider_id.str].healthy,
                                supported_models(found.value))]

\* GET /providers/{provider_id}, routers/providers.py lines 35-51; the path
\* parameter is a non-empty string
api_get_provider(provs, health, provider_id) ==
    LET found == get_provider(provs, provider_id) IN
    IF found.raised = "ValueError"
    THEN HTTPException(404, found.msg)
    ELSE LET health_status == check_provider_health(provs, health, provider_id.str) IN
         [status |-> 200,
          body |-> ProviderInfo(provider_id.str, found.value.name, TRUE,
                                health_status.value,
                                supported_models(found.value))]

(***************************************************************************)
(* SpecHealth: the health operations of ProviderRouter and GET /providers  *)
(* as functions of the mapping and of what each provider's health_check    *)
(* does: every mapping of BaseProvider implementations, every outcome of   *)
(* each health check, one call per step                                    *)
(***************************************************************************)
\* the provider class of each vendor id
ProviderObjects ==
    [openai |-> OpenAIProvider, anthropic |-> AnthropicProvider, gemini |-> GeminiProvider]

\* self.providers: Dict[str, BaseProvider]
Registries ==
    {[id \in S |-> ProviderObjects[id]] : S \in SUBSET {"openai", "anthropic", "gemini"}}

\* what awaiting a BaseProvider.health_check() can give
HealthOutcomes == {Return(TRUE), Return(FALSE), Raise("RuntimeError", "health check failed")}

HealthInit ==
    /\ CacheInit
    /\ StreamInit
    /\ settings = DefaultSettings
    /\ providers \in Registries
    /\ ledger = <<>>
    /\ calls = [requests |-> 0, complete |-> 0, stream |-> 0, embed |-> 0, track |-> 0]
    /\ resp = NoResponse
    /\ sse = NoStream
    /\ tasks = NoTasks

\* await provider_router.check_provider_health(provider_id)
HealthOf(provider_id, health) ==
    /\ ret.n < MaxOps
    /\ ret' = [op |-> "check_provider_health", n |-> ret.n + 1,
               provider_id |-> provider_id, health |-> health,
               result |-> check_provider_health(providers, health, provider_id.str)]
    /\ UNCHANGED <<cache, now, lastSet, streamVars, serviceVars>>

\* provider_router.list_providers() while the health checks would give `health`
RouterList(health) ==
    /\ ret.n < MaxOps
    /\ ret' = [op |-> "list_providers", n |-> ret.n + 1, provider_id |-> None,
               health |-> health, result |-> Return(list_providers(providers))]
    /\ UNCHANGED <<cache, now, lastSet, streamVars, serviceVars>>

\* GET /providers
ApiListProviders(health) ==
    /\ ret.n < MaxOps
    /\ ret' = [op |-> "GET /providers", n |-> ret.n + 1, provider_id |-> None,
               health |-> health, result |-> api_list_providers(providers, health)]
    /\ UNCHANGED <<cache, now, lastSet, streamVars, serviceVars>>

\* GET /providers/{provider_id}
ApiGetProvider(provider_id, health) ==
    /\ ret.n < MaxOps
    /\ ret' = [op |-> "GET /providers/{provider_id}", n |-> ret.n + 1,
               provider_id |-> provider_id, health |-> health,
               result |-> api_get_provider(providers, health, provider_id)]
    /\ UNCHANGED <<cache, now, lastSet, streamVars, serviceVars>>

HealthNext ==
    \/ \E provider_id \in RouterIds \ {None}, health \in [DOMAIN providers -> HealthOutcomes] :
            HealthOf(provider_id, health)
    \/ \E provider_id \in {i \in RouterIds : ~Falsy(i)},
             health \in [DOMAIN providers -> HealthOutcomes] :
            ApiGetProvider(provider_id, health)
    \/ \E health \in [DOMAIN providers -> HealthOutcomes] : RouterList(health)
    \/ \E health \in [DOMAIN providers -> HealthOutcomes] : ApiListProviders(health)

SpecHealth == HealthInit /\ [][HealthNext]_vars

(***************************************************************************)
(* SpecStream                                                              *)
(***************************************************************************)
StreamSpecInit ==
    /\ CacheInit
    /\ StreamInit
    /\ ServiceInitFrom({DefaultSettings})

SpecStream == StreamSpecInit /\ [][StreamNext]_vars

(***************************************************************************)
(* SpecReady: GET /health and GET /ready (main.py)                         *)
(***************************************************************************)
\* JSONResponse(status_code=..., content=...)
JSONResponse(status_code, content) == [status_code |-> status_code, content |-> content]

\* main.py lines 58-61
health == JSONResponse(200, [status |-> "healthy"])

\* ready answering from the credential check alone
ready_ignoresLedger(cfg, probe) ==
    LET key_missing == Falsy(cfg.openai_api_key)
                       \/ cfg.openai_api_key.str \in PlaceholderKeys
        all_ready == ~(cfg.openai_enabled /\ key_missing)
    IN  JSONResponse(IF all_ready THEN 200 ELSE 503,
                     [status |-> IF all_ready THEN "ready" ELSE "not ready",
                      checks |-> EmptyDict])

\* main.py lines 64-97. probe is what UsageTracker() followed by the
\* select on llm_usage gives: a result, or the exception one of them raised
ready(cfg, probe) ==
    LET supabase == IF probe.raised = NoException THEN "ready"
                    ELSE "error: " \o probe.msg
        key_missing == Falsy(cfg.openai_api_key)
                       \/ cfg.openai_api_key.str \in PlaceholderKeys
        all_ready == /\ probe.raised = NoException
                     /\ ~(cfg.openai_enabled /\ key_missing)
        checks == IF cfg.openai_enabled
                  THEN [supabase |-> supabase,
                        openai |-> IF key_missing THEN "error: API key not configured"
                                   ELSE "ready"]
                  ELSE [supabase |-> supabase]
    IN  JSONResponse(IF all_ready THEN 200 ELSE 503,
                     [status |-> IF all_ready THEN "ready" ELSE "not ready",
                      checks |-> checks])

\* what the probe of the ledger can give
LedgerProbes ==
    {Return(<<>>),
     Raise("ConnectError", "connection refused"),
     Raise("APIError", "relation llm_usage does not exist"),
     Raise("SupabaseException", "Invalid API key")}

ReadyInit ==
    /\ CacheInit
    /\ StreamInit
    /\ ServiceInitFrom(RouterSettings)

\* history kept in `ret`: answers, every answer given so far, in order
AnswersSoFar == IF ret.op = "none" THEN <<>> ELSE ret.answers

\* GET /health
Health ==
    /\ ret.n < MaxOps
    /\ ret' = [op |-> "GET /health", n |-> ret.n + 1, probe |-> None, result |-> health,
               answers |-> Append(AnswersSoFar, [op |-> "GET /health", result |-> health])]
    /\ UNCHANGED <<cache, now, lastSet, streamVars, serviceVars>>

\* GET /ready
Ready(probe) ==
    /\ ret.n < MaxOps
    /\ ret' = [op |-> "GET /ready", n |-> ret.n + 1, probe |-> probe,
               result |-> ready(settings, probe),
               answers |-> Append(AnswersSoFar, [op |-> "GET /ready",
                                                 result |-> ready(settings, probe)])]
    /\ UNCHANGED <<cache, now, lastSet, streamVars, serviceVars>>

ReadyNext ==
    \/ Health
    \/ \E probe \in LedgerProbes : Ready(probe)

SpecReady == ReadyInit /\ [][ReadyNext]_vars

(***************************************************************************)
(* SpecCallback: one StreamingCallback on an asyncio.Queue(), the model     *)
(* library calling its methods and a consumer taking chunks from the queue  *)
(***************************************************************************)
CallbackTokens == {"Hello", ""}
CallbackErrors == {"Test error"}
\* LLMResult.llm_output is Optional[dict]; its "token_usage" is what the
\* upstream response carried as usage
LLMResults ==
    {[llm_output |-> o] :
        o \in {None,
               [model_name |-> "gpt-4o"],
               [token_usage |-> NullValue],
               [token_usage |-> EmptyDict],
               [token_usage |-> [prompt_tokens |-> 10]],
               [token_usage |-> [prompt_tokens |-> 10, completion_tokens |-> 20,
                                 total_tokens |-> 30]]}}

\* the callback after one method call: an exception leaves it as it was
Invoked(method, arg, out) ==
    [(IF out.raised = NoException THEN out.value ELSE callback)
        EXCEPT !.invocations = Append(@, [method |-> method, arg |-> arg,
                                          raised |-> out.raised])]

OnLlmNewToken(token) ==
    /\ Len(callback.invocations) < MaxCallbacks
    /\ callback' = Invoked("on_llm_new_token", token, on_llm_new_token(callback, token))
    /\ UNCHANGED <<cacheVars, gen, chunks, serviceVars>>

OnLlmEnd(response) ==
    /\ Len(callback.invocations) < MaxCallbacks
    /\ callback' = Invoked("on_llm_end", response, on_llm_end(callback, response))
    /\ UNCHANGED <<cacheVars, gen, chunks, serviceVars>>

OnLlmError(error) ==
    /\ Len(callback.invocations) < MaxCallbacks
    /\ callback' = Invoked("on_llm_error", error, on_llm_error(callback, error))
    /\ UNCHANGED <<cacheVars, gen, chunks, serviceVars>>

\* chunk = await queue.get() of the consumer
QueueGet ==
    /\ callback.queue # <<>>
    /\ callback' = [callback EXCEPT !.got = Append(@, Head(callback.queue)),
                                    !.queue = Tail(@)]
    /\ UNCHANGED <<cacheVars, gen, chunks, serviceVars>>

CallbackNext ==
    \/ \E token \in CallbackTokens : OnLlmNewToken(token)
    \/ \E response \in LLMResults : OnLlmEnd(response)
    \/ \E error \in CallbackErrors : OnLlmError(error)
    \/ QueueGet

SpecCallback == StreamSpecInit /\ [][CallbackNext]_vars

(***************************************************************************)
(* Spec and SpecSSE: the request handlers of the running service           *)
(***************************************************************************)
\* the requests the HTTP layer delivers
ProviderIds == {None, Str("openai"), Str("nonexistent")}
ModelIds == {None, Str("gpt-4o")}
RequestTemperatures == {3, 4}
EmbeddingTexts == {"test text", "Hi"}
EmbeddingModelIds == {None, Str("text-embedding-3-small")}
EmbeddingRequests ==
    {[text |-> t, provider |-> p, model |-> mo] :
        t \in EmbeddingTexts, p \in ProviderIds, mo \in EmbeddingModelIds}
\* an Optional[int] field that is set
IntValue(n) == [int |-> n]
Requests ==
    {[messages |-> m, provider |-> p, model |-> mo, temperature |-> t, max_tokens |-> None] :
        m \in MessageLists, p \in ProviderIds, mo \in ModelIds, t \in RequestTemperatures}
    \cup {[messages |-> M1, provider |-> p, model |-> None, temperature |-> Threshold,
           max_tokens |-> IntValue(100)] : p \in ProviderIds}
UserIds == {None, Str(""), Str("user-1")}
ConversationIds == {None}
\* what the collaborators do during one request: the upstream API answers or
\* fails; the ledger insert succeeds or fails
Outcomes == {[upstream_ok |-> TRUE, insert_ok |-> TRUE],
             [upstream_ok |-> TRUE, insert_ok |-> FALSE],
             [upstream_ok |-> FALSE, insert_ok |-> TRUE]}

Init ==
    /\ CacheInit
    /\ StreamInit
    /\ ServiceInitFrom(ServiceSettings)

\* POST /complete
Complete(request, x_user_id, x_conversation_id, upstream_ok, insert_ok) ==
    /\ calls.requests < MaxRequests
    /\ LET out == complete(request, x_user_id, x_conversation_id, upstream_ok, insert_ok) IN
       /\ cache' = out.cache
       /\ ledger' = out.ledger
       /\ calls' = [out.calls EXCEPT !.requests = @ + 1]
       /\ resp' = [endpoint |-> "complete", request |-> request, x_user_id |-> x_user_id,
                   upstream_ok |-> upstream_ok, at |-> now,
                   answer |-> out.answer,
                   hit |-> GetResult(cache, request.messages, request.temperature, now) # None,
                   sizeBefore |-> size(cache),
                   completeCalls |-> out.calls.complete - calls.complete,
                   embedCalls |-> 0,
                   trackCalls |-> out.calls.track - calls.track,
                   ledgerRows |-> Len(out.ledger) - Len(ledger)]
    /\ UNCHANGED <<now, ret, lastSet, streamVars, settings, providers, tasks, sse>>

\* lines 192-199: StreamingResponse(generate_stream(), ...): the status line 200
\* is sent before the first event is pulled. History: ledgerBefore, the number
\* of ledger rows when the response was opened; cancelled, the caller has
\* disconnected
StreamingResponse(g) ==
    [status |-> 200, ledgerBefore |-> Len(ledger), cancelled |-> FALSE] @@ g

\* POST /embeddings
CreateEmbedding(request, x_user_id, x_conversation_id, upstream_ok, insert_ok) ==
    /\ calls.requests < MaxRequests
    /\ LET out == create_embedding(request, x_user_id, x_conversation_id,
                                   upstream_ok, insert_ok) IN
       /\ cache' = out.cache
       /\ ledger' = out.ledger
       /\ calls' = [out.calls EXCEPT !.requests = @ + 1]
       /\ resp' = [endpoint |-> "embeddings", request |-> request, x_user_id |-> x_user_id,
                   upstream_ok |-> upstream_ok, insert_ok |-> insert_ok, at |-> now,
                   answer |-> out.answer,
                   hit |-> FALSE,
                   sizeBefore |-> size(cache),
                   completeCalls |-> 0,
                   embedCalls |-> out.calls.embed - calls.embed,
                   trackCalls |-> out.calls.track - calls.track,
                   ledgerRows |-> Len(out.ledger) - Len(ledger)]
    /\ UNCHANGED <<now, ret, lastSet, streamVars, settings, providers, tasks, sse>>

\* POST /complete/stream: reject, or answer 200 with a StreamingResponse over a
\* new generate_stream()
CompleteStream(request, x_user_id, x_conversation_id, upstream_ok, insert_ok) ==
    /\ calls.requests < MaxRequests
    /\ sse.pc \in {"idle", "done"}
    /\ calls' = [calls EXCEPT !.requests = @ + 1]
    /\ IF Falsy(x_user_id)
       THEN /\ resp' = [endpoint |-> "stream", request |-> request, x_user_id |-> x_user_id,
                        upstream_ok |-> upstream_ok, at |-> now,
                        answer |-> HTTPException(400, "X-User-ID header required"),
                        hit |-> FALSE, sizeBefore |-> size(cache),
                        completeCalls |-> 0, embedCalls |-> 0,
                        trackCalls |-> 0, ledgerRows |-> 0]
            /\ sse' = sse
       ELSE /\ sse' = StreamingResponse(
                          NewGenerateStream(request, x_user_id, x_conversation_id,
                                            upstream_ok, insert_ok))
            /\ resp' = resp
    /\ UNCHANGED <<cacheVars, streamVars, settings, providers, tasks, ledger>>

\* the server pulls the next event of the open streaming response
GenerateStreamNext(construct_ok, items) ==
    /\ sse.pc \notin {"idle", "done"}
    /\ LET out == generate_stream(sse, ledger, calls, construct_ok, items) IN
       /\ sse' = out.g
       /\ ledger' = out.ledger
       /\ calls' = out.calls
    /\ UNCHANGED <<cacheVars, streamVars, settings, providers, tasks, resp>>

\* what the upstream does during one run of the open response's provider
\* stream: with upstream_ok the client is constructed and astream never raises;
\* otherwise the client construction fails or astream raises before it stops
StreamFeeds ==
    LET g == IF sse.pc \in {"idle", "done"} \/ sse.stream = None
             THEN NewStream ELSE sse.stream
        up == sse.pc \notin {"idle", "done"} /\ sse.upstream_ok
    IN  {f \in [construct_ok : BOOLEAN, items : Feeds(g)] :
            /\ Len(f.items) = 1
            /\ up => f.construct_ok /\ f.items # <<UpRaise>>
            /\ ~up => f.items # <<UpStop>>}

Pull == \E f \in StreamFeeds : GenerateStreamNext(f.construct_ok, f.items)

\* the caller of the open streaming response disconnects
Cancel ==
    /\ sse.pc \notin {"idle", "done"}
    /\ LET out == GenClose(sse, ledger, calls) IN
       /\ sse' = out.g
       /\ ledger' = out.ledger
       /\ calls' = out.calls
    /\ UNCHANGED <<cacheVars, streamVars, settings, providers, tasks, resp>>

Next ==
    \/ Tick
    \/ \E r \in Requests, u \in UserIds, c \in ConversationIds, e \in Outcomes :
          Complete(r, u, c, e.upstream_ok, e.insert_ok)
    \/ \E r \in EmbeddingRequests, u \in UserIds, c \in ConversationIds, e \in Outcomes :
          CreateEmbedding(r, u, c, e.upstream_ok, e.insert_ok)

Spec == Init /\ [][Next]_vars

\* the streaming handler does not look at the messages: one message list
StreamRequests == {r \in Requests : r.messages = M1 /\ r.max_tokens = None}

SSENext ==
    \/ \E r \in StreamRequests, u \in UserIds, c \in ConversationIds, e \in Outcomes :
          CompleteStream(r, u, c, e.upstream_ok, e.insert_ok)
    \/ Pull

SpecSSE == Init /\ [][SSENext]_vars

\* the server keeps pulling events while a streaming response is open
FairSpecSSE == SpecSSE /\ WF_vars(Pull)

\* the three endpoints together: POST /complete, POST /embeddings and
\* POST /complete/stream with the server pulling the open response; the
\* requests vary in provider id, temperature, caller identity and outcome
APIRequests == {r \in Requests : r.messages = M1 /\ r.model = None /\ r.max_tokens = None}
APIEmbeddingRequests == {r \in EmbeddingRequests : r.text = "test text" /\ r.model = None}

APINext ==
    \/ \E r \in APIRequests, u \in UserIds, c \in ConversationIds, e \in Outcomes :
          Complete(r, u, c, e.upstream_ok, e.insert_ok)
    \/ \E r \in APIEmbeddingRequests, u \in UserIds, c \in ConversationIds, e \in Outcomes :
          CreateEmbedding(r, u, c, e.upstream_ok, e.insert_ok)
    \/ \E r \in APIRequests, u \in UserIds, c \in ConversationIds, e \in Outcomes :
          CompleteStream(r, u, c, e.upstream_ok, e.insert_ok)
    \/ Pull

SpecAPI == Init /\ [][APINext]_vars

\* POST /complete/stream with callers that may disconnect
CancelNext ==
    \/ \E r \in StreamRequests, u \in UserIds, c \in ConversationIds, e \in Outcomes :
          CompleteStream(r, u, c, e.upstream_ok, e.insert_ok)
    \/ Pull
    \/ Cancel

SpecCancel == Init /\ [][CancelNext]_vars

(***************************************************************************)
(* SpecStub: the placeholder providers AnthropicProvider and GeminiProvider *)
(* called directly, one call per step                                      *)
(***************************************************************************)
StubProviders == {AnthropicProvider, GeminiProvider}

\* the message of the stubs' NotImplementedError
StubMessage(provider) ==
    IF provider.name = "anthropic"
    THEN "Anthropic provider not yet implemented"
    ELSE "Gemini provider not yet implemented"

\* await provider.complete(...): the body raises
stub_complete(provider, messages, temperature) ==
    Raise("NotImplementedError", StubMessage(provider))

\* await provider.embed(...): the body raises
stub_embed(provider, text) ==
    Raise("NotImplementedError", StubMessage(provider))

\* the two ways a caller can consume provider.stream(...)
StreamUses == {"async for", "await"}

\* provider.stream(...): the body has no yield, so stream is a coroutine
\* function and the call returns a coroutine; iterating it with `async for`,
\* as the interface prescribes and routers/completions.py does, raises
\* TypeError before the body runs; awaiting it runs the body, which raises
stub_stream(provider, messages, temperature, use) ==
    IF use = "async for"
    THEN Raise("TypeError", "'async for' requires an object with __aiter__ method, got coroutine")
    ELSE Raise("NotImplementedError", StubMessage(provider))

\* await provider.health_check()
stub_health_check(provider) == Return(FALSE)

StubInit ==
    /\ CacheInit
    /\ StreamInit
    /\ ServiceInitFrom({DefaultSettings})

StubComplete(provider, messages, temperature) ==
    /\ ret.n < MaxOps
    /\ ret' = [op |-> "complete", n |-> ret.n + 1, provider |-> provider,
               messages |-> messages, temperature |-> temperature,
               result |-> stub_complete(provider, messages, temperature)]
    /\ UNCHANGED <<cache, now, lastSet, streamVars, serviceVars>>

\* chunks: what the consumer received before the call failed
StubStream(provider, messages, temperature, use) ==
    /\ ret.n < MaxOps
    /\ ret' = [op |-> "stream", n |-> ret.n + 1, provider |-> provider,
               messages |-> messages, temperature |-> temperature, use |-> use,
               chunks |-> <<>>,
               result |-> stub_stream(provider, messages, temperature, use)]
    /\ UNCHANGED <<cache, now, lastSet, streamVars, serviceVars>>

StubEmbed(provider, text) ==
    /\ ret.n < MaxOps
    /\ ret' = [op |-> "embed", n |-> ret.n + 1, provider |-> provider,
               text |-> text, result |-> stub_embed(provider, text)]
    /\ UNCHANGED <<cache, now, lastSet, streamVars, serviceVars>>

StubHealthCheck(provider) ==
    /\ ret.n < MaxOps
    /\ ret' = [op |-> "health_check", n |-> ret.n + 1, provider |-> provider,
               result |-> stub_health_check(provider)]
    /\ UNCHANGED <<cache, now, lastSet, streamVars, serviceVars>>

StubNext ==
    \/ \E provider \in StubProviders, messages \in MessageLists, temperature \in Temperatures :
            StubComplete(provider, messages, temperature)
    \/ \E provider \in StubProviders, messages \in MessageLists,
          temperature \in Temperatures, use \in StreamUses :
            StubStream(provider, messages, temperature, use)
    \/ \E provider \in StubProviders, text \in EmbeddingTexts : StubEmbed(provider, text)
    \/ \E provider \in StubProviders : StubHealthCheck(provider)

SpecStub == StubInit /\ [][StubNext]_vars

(***************************************************************************)
(* SpecCost: UsageTracker.track applied to any model and usage, one call   *)
(* per step                                                                *)
(***************************************************************************)
\* the models of settings.cost_rates and one model that is not in the table
TableModels == {"gpt-4o-mini", "gpt-4o", "text-embedding-ada-002",
                "claude-3-haiku-20240307", "gemini-1.5-flash"}
CostModels == TableModels \cup {"custom-model"}

\* CompletionUsage values
CostUsages == {Usage(10, 5, 15), Usage(1000, 500, 1500), Usage(7, 0, 7), ZeroUsage}

CostInit ==
    /\ CacheInit
    /\ StreamInit
    /\ ServiceInitFrom({DefaultSettings})

\* await usage_tracker.track(...)
Track(model, usage, insert_ok) ==
    /\ ret.n < MaxOps
    /\ ledger' = track(ledger, "user-1", None, "openai", model, usage, EmptyDict, insert_ok)
    /\ calls' = [calls EXCEPT !.track = @ + 1]
    /\ ret' = [op |-> "track", n |-> ret.n + 1, model |-> model, usage |-> usage,
               insert_ok |-> insert_ok]
    /\ UNCHANGED <<cache, now, lastSet, streamVars, settings, providers, tasks, resp, sse>>

CostNext ==
    \E model \in CostModels, usage \in CostUsages, insert_ok \in BOOLEAN :
        Track(model, usage, insert_ok)

SpecCost == CostInit /\ [][CostNext]_vars

(***************************************************************************)
(* SpecTasks: two coroutines on the one event loop, each calling get and   *)
(* set of the shared CompletionCache; get and set advance statement by     *)
(* statement, and the event loop can run another coroutine only where the  *)
(* running one is suspended                                                *)
(***************************************************************************)
TaskIds == {1, 2}

\* the arguments the coroutines pass
TaskMessages == {M1, M2}
TaskTemperatures == {3}

\* positions inside get and set reached after an await
SuspensionPoints_insideGet == {"idle", "get:65"}

\* the positions at which a coroutine is suspended: between two calls of the
\* cache (the handler awaits the provider there); get and set are plain
\* functions, no statement of theirs is an await
SuspensionPoints == {"idle"}

IdleTask == [pc |-> "idle", op |-> "none", n |-> 0]

\* running: the coroutine that holds the event loop, 0 when all are suspended
TasksInit ==
    /\ CacheInit
    /\ StreamInit
    /\ settings = DefaultSettings
    /\ providers = ProviderRouter(settings)
    /\ ledger = <<>>
    /\ calls = [requests |-> 0, complete |-> 0, stream |-> 0, embed |-> 0, track |-> 0]
    /\ resp = NoResponse
    /\ sse = NoStream
    /\ tasks = [running |-> 0, of |-> [h \in TaskIds |-> IdleTask]]

\* the calls made so far by all coroutines
TaskCalls == tasks.of[1].n + tasks.of[2].n

\* coroutine h may execute its next statement
MayRun(h) == tasks.running \in {0, h}

\* coroutine h is now at the position of `task`
Moved(h, task) ==
    tasks' = [running |-> IF task.pc \in SuspensionPoints THEN 0 ELSE h,
              of |-> [tasks.of EXCEPT ![h] = task]]

\* get, lines 56-62: the key, the lookup of the entry
TaskGetLookup(h, messages, temperature) ==
    /\ MayRun(h)
    /\ tasks.of[h].pc = "idle"
    /\ TaskCalls < MaxOps
    /\ LET cache_key == _get_cache_key(messages, temperature)
           call == [op |-> "get", n |-> tasks.of[h].n + 1, messages |-> messages,
                    temperature |-> temperature, evicted |-> FALSE]
       IN  IF Not(cache_key) \/ cache_key \notin DOMAIN cache
           THEN Moved(h, [pc |-> "idle", result |-> Return(None)] @@ call)
           ELSE Moved(h, [pc |-> "get:65", cache_key |-> cache_key,
                          entry |-> cache[cache_key]] @@ call)
    /\ UNCHANGED <<cacheVars, streamVars, settings, providers, ledger, calls, resp, sse>>

\* get, lines 65-69: the expiry test, the del of the expired entry (KeyError
\* if the key is not in the dict), the return
TaskGetExpiry(h) ==
    /\ MayRun(h)
    /\ tasks.of[h].pc = "get:65"
    /\ LET task == tasks.of[h]
           call == [op |-> "get", n |-> task.n, messages |-> task.messages,
                    temperature |-> task.temperature]
       IN  IF now - task.entry.timestamp > ttl_seconds
           THEN IF task.cache_key \in DOMAIN cache
                THEN /\ cache' = DictDel(cache, task.cache_key)
                     /\ Moved(h, [pc |-> "idle", result |-> Return(None),
                                   evicted |-> TRUE] @@ call)
                ELSE /\ cache' = cache
                     /\ Moved(h, [pc |-> "idle", result |-> Raise("KeyError", "cache_key"),
                                   evicted |-> FALSE] @@ call)
           ELSE /\ cache' = cache
                /\ Moved(h, [pc |-> "idle", result |-> Return(task.entry.completion),
                              evicted |-> FALSE] @@ call)
    /\ UNCHANGED <<now, ret, lastSet, streamVars, settings, providers, ledger, calls, resp, sse>>

\* set, lines 85-87: the key
TaskSetKey(h, messages, completion, temperature) ==
    /\ MayRun(h)
    /\ tasks.of[h].pc = "idle"
    /\ TaskCalls < MaxOps
    /\ LET cache_key == _get_cache_key(messages, temperature)
           call == [op |-> "set", n |-> tasks.of[h].n + 1, messages |-> messages,
                    temperature |-> temperature, completion |-> completion]
       IN  IF Not(cache_key)
           THEN Moved(h, [pc |-> "idle", result |-> Return(None)] @@ call)
           ELSE Moved(h, [pc |-> "set:89", cache_key |-> cache_key] @@ call)
    /\ UNCHANGED <<cacheVars, streamVars, settings, providers, ledger, calls, resp, sse>>

\* set, lines 89-92: the entry is built and stored under the key
TaskSetStore(h) ==
    /\ MayRun(h)
    /\ tasks.of[h].pc = "set:89"
    /\ LET task == tasks.of[h] IN
       /\ cache' = DictSet(cache, task.cache_key,
                           [completion |-> task.completion, timestamp |-> now])
       /\ lastSet' = [lastSet EXCEPT ![<<task.messages, task.temperature>>] =
                          [completion |-> task.completion, at |-> now]]
       /\ Moved(h, [pc |-> "idle", op |-> "set", n |-> task.n, messages |-> task.messages,
                     temperature |-> task.temperature, completion |-> task.completion,
                     result |-> Return(None)])
    /\ UNCHANGED <<now, ret, streamVars, settings, providers, ledger, calls, resp, sse>>

TasksNext ==
    \/ Tick
    \/ \E h \in TaskIds, m \in TaskMessages, t \in TaskTemperatures : TaskGetLookup(h, m, t)
    \/ \E h \in TaskIds : TaskGetExpiry(h)
    \/ \E h \in TaskIds, m \in TaskMessages, c \in Completions, t \in TaskTemperatures :
            TaskSetKey(h, m, c, t)
    \/ \E h \in TaskIds : TaskSetStore(h)

SpecTasks == TasksInit /\ [][TasksNext]_vars

(***************************************************************************)
(* SpecConc: two POST /complete handlers on the one event loop; a handler  *)
(* runs from its entry to its await of the provider, and from the answer   *)
(* of the provider to its return                                           *)
(***************************************************************************)
NoHandler == [pc |-> "none"]

\* the handler `complete` from its entry to its first suspension, lines 35-64:
\* where it stands, its answer if it returned, the cache it leaves; missed:
\* the cache lookup returned None
complete_to_await(request, x_user_id) ==
    IF Falsy(x_user_id)
    THEN [pc |-> "done", answer |-> HTTPException(400, "X-User-ID header required"),
          cache |-> cache, missed |-> FALSE]
    ELSE
    LET messages == request.messages
        cached_response == GetResult(cache, messages, request.temperature, now)
        cache1 == GetCache(cache, messages, request.temperature, now)
        found == get_provider(providers, request.provider)
    IN
    IF cached_response # None
    THEN [pc |-> "done",
          answer |-> CompletionResponse(cached_response.provider, cached_response.content,
                                        cached_response.model, cached_response.usage,
                                        cached_response.metadata),
          cache |-> cache1, missed |-> FALSE]
    ELSE IF found.raised # NoException
    THEN [pc |-> "done", answer |-> HTTPException(400, found.msg),
          cache |-> cache1, missed |-> TRUE]
    ELSE IF ~HasField("response_format")
    THEN \* request.response_format: AttributeError, caught by "except Exception"
         [pc |-> "done",
          answer |-> HTTPException(500, "Internal server error: no attribute response_format"),
          cache |-> cache1, missed |-> TRUE]
    ELSE IF ~(HandlerKwargs \subseteq ProviderParams)
    THEN \* provider.complete(..., response_format=...): TypeError
         [pc |-> "done",
          answer |-> HTTPException(500, "Internal server error: unexpected keyword argument"),
          cache |-> cache1, missed |-> TRUE]
    ELSE [pc |-> "await provider.complete", provider |-> found.value,
          cache |-> cache1, missed |-> TRUE]

\* the handler from the answer of the provider to its return, lines 58-107:
\* its answer and the cache and ledger it leaves; stored: it wrote the cache
complete_from_await(task, x_conversation_id, upstream_ok, insert_ok) ==
    LET request == task.request
        called == OpenAIComplete(request, upstream_ok)
    IN
    IF called.raised # NoException
    THEN [answer |-> HTTPException(400, called.msg), cache |-> cache, ledger |-> ledger,
          tracked |-> 0, stored |-> FALSE]
    ELSE
    LET response == called.value
        cache2 == SetCache(cache, request.messages,
                           [provider |-> task.provider.name, content |-> response.content,
                            model |-> response.model, usage |-> UsageDict(response.usage),
                            metadata |-> response.metadata],
                           request.temperature, now)
        ledger2 == track(ledger, task.x_user_id.str, x_conversation_id, task.provider.name,
                         response.model, response.usage, response.metadata, insert_ok)
    IN  [answer |-> CompletionResponse(task.provider.name, response.content, response.model,
                                       UsageDict(response.usage), response.metadata),
         cache |-> cache2, ledger |-> ledger2, tracked |-> 1, stored |-> TRUE]

ConcInit ==
    /\ CacheInit
    /\ StreamInit
    /\ settings = DefaultSettings
    /\ providers = ProviderRouter(settings)
    /\ ledger = <<>>
    /\ calls = [requests |-> 0, complete |-> 0, stream |-> 0, embed |-> 0, track |-> 0]
    /\ resp = NoResponse
    /\ sse = NoStream
    /\ tasks = [h \in TaskIds |-> NoHandler]

\* the event loop runs handler h up to its next suspension or its return: a
\* new request enters the handler, or the provider's answer resumes it.
\* History: at, the time of the cache lookup; storedAt, the time of the set
HandlerRun(h, request, x_user_id, x_conversation_id, upstream_ok, insert_ok) ==
    /\ tasks[h].pc # "done"
    /\ IF tasks[h].pc = "none"
       THEN /\ calls.requests < MaxRequests
            /\ LET out == complete_to_await(request, x_user_id) IN
               /\ cache' = out.cache
               /\ calls' = [calls EXCEPT !.requests = @ + 1,
                                         !.complete = IF out.pc = "done" THEN @ ELSE @ + 1]
               /\ tasks' = [tasks EXCEPT ![h] =
                               [request |-> request, x_user_id |-> x_user_id, at |-> now,
                                stored |-> FALSE, storedAt |-> 0]
                               @@ [f \in DOMAIN out \ {"cache"} |-> out[f]]]
               /\ ledger' = ledger
       ELSE /\ LET out == complete_from_await(tasks[h], x_conversation_id,
                                              upstream_ok, insert_ok) IN
               /\ cache' = out.cache
               /\ ledger' = out.ledger
               /\ calls' = [calls EXCEPT !.track = @ + out.tracked]
               /\ tasks' = [tasks EXCEPT ![h] =
                               [pc |-> "done", answer |-> out.answer,
                                stored |-> out.stored, storedAt |-> now] @@ tasks[h]]
    /\ UNCHANGED <<now, ret, lastSet, streamVars, settings, providers, resp, sse>>

ConcNext ==
    \/ Tick
    \/ \E h \in TaskIds, r \in APIRequests, u \in UserIds, c \in ConversationIds,
          e \in Outcomes :
            HandlerRun(h, r, u, c, e.upstream_ok, e.insert_ok)

SpecConc == ConcInit /\ [][ConcNext]_vars

(***************************************************************************)
(* Claims about CompletionCache                                            *)
(***************************************************************************)
\* C1 (cache determinism): a get(M, t) with t <= 0.3 that follows a set(M, R, t)
\* (no clear in between) returns R and keeps the entry while
\* now - created_at <= ttl; once now - created_at > ttl it returns absent and
\* the entry is gone from the map.
C1_CacheDeterminism ==
    (/\ ret.op = "get"
     /\ ret.temperature <= Threshold
     /\ lastSet[<<ret.messages, ret.temperature>>] # None)
    => LET s == lastSet[<<ret.messages, ret.temperature>>]
           k == sha256(json_dumps(ret.messages, ret.temperature))
       IN  IF ret.at - s.at <= ttl_seconds
           THEN ret.result = s.completion /\ k \in DOMAIN cache
           ELSE ret.result = None /\ k \notin DOMAIN cache

\* C1 witness: a get issued after the ttl of a stored entry elapsed came back absent
C1_Witness ==
    /\ ret.op = "get"
    /\ ret.temperature <= Threshold
    /\ lastSet[<<ret.messages, ret.temperature>>] # None
    /\ ret.at - lastSet[<<ret.messages, ret.temperature>>].at > ttl_seconds
    /\ ret.result = None
    /\ ret.sizeBefore = size(cache) + 1

\* C2 (cache exclusion): a set with t > 0.3 leaves size() unchanged, a get with
\* t > 0.3 returns absent, and no key of the map is the fingerprint of a
\* request above the threshold.
C2_CacheExclusion ==
    /\ (ret.op = "set" /\ ret.temperature > Threshold) => size(cache) = ret.sizeBefore
    /\ (ret.op = "get" /\ ret.temperature > Threshold) => ret.result = None
    /\ \A k \in DOMAIN cache :
          /\ \E m \in AllMessageLists, t \in AllTemperatures :
                t <= Threshold /\ k = sha256(json_dumps(m, t))
          /\ \A m \in AllMessageLists, t \in AllTemperatures :
                t > Threshold => k # sha256(json_dumps(m, t))

\* C2 witness: a get above the threshold, after a set with the same arguments,
\* with entries of other requests in the map
C2_Witness ==
    /\ ret.op = "get"
    /\ ret.temperature > Threshold
    /\ lastSet[<<ret.messages, ret.temperature>>] # None
    /\ ret.result = None
    /\ size(cache) > 0

\* C3 (key sensitivity): for two cache-eligible (messages, temperature) pairs the
\* keys are equal exactly when the pairs are equal.
C3_KeySensitivity ==
    (/\ ret.op = "keys"
     /\ ret.a[2] <= Threshold
     /\ ret.b[2] <= Threshold)
    => ((ret.ka = ret.kb) <=> (ret.a = ret.b))

\* C3 witness: the same two messages in the other order, same temperature
C3_Witness ==
    /\ ret.op = "keys"
    /\ ret.a = <<M1, 3>>
    /\ ret.b = <<M2, 3>>
    /\ ret.ka # ret.kb
    /\ ret.ka # None

(***************************************************************************)
(* Claims about POST /complete                                             *)
(***************************************************************************)
\* the Router resolves this provider id (a registered id, or none with a default)
Resolvable(provider_id) == get_provider(providers, provider_id).raised = NoException

\* the last request was a POST /complete with a caller identity that named a
\* resolvable provider
ValidComplete(r) ==
    /\ r.endpoint = "complete"
    /\ ~Falsy(r.x_user_id)
    /\ Resolvable(r.request.provider)

\* the cache holds, under the fingerprint of the last request, the answer given to it
StoredAnswer(r) ==
    LET k == sha256(json_dumps(r.request.messages, r.request.temperature)) IN
    /\ k \in DOMAIN cache
    /\ cache[k].completion.content = r.answer.content

\* C4 (synchronous miss path): a POST /complete with a caller identity that
\* misses the cache, names a resolvable provider and whose upstream call succeeds
\* is answered 200 with the provider's content, model and usage, after exactly
\* one provider.complete call and exactly one Usage Recorder call, and its
\* result is in the cache iff temperature <= 0.3.
C4_SyncMissPath ==
    (ValidComplete(resp) /\ ~resp.hit /\ resp.upstream_ok)
    => /\ resp.answer.status = 200
       /\ resp.answer.content = UpstreamContent
       /\ resp.answer.model = (IF resp.request.model = None THEN default_model
                               ELSE resp.request.model.str)
       /\ resp.answer.usage = UsageDict(UpstreamUsage)
       /\ resp.completeCalls = 1
       /\ resp.trackCalls = 1
       /\ StoredAnswer(resp) <=> (resp.request.temperature <= Threshold)

\* C5 (cache hit path): of two identical POST /complete requests with
\* temperature <= 0.3 (caller identity, resolvable provider, upstream healthy),
\* the second, issued within ttl of the first, is answered 200 with the
\* provider, content, model, usage and metadata of the first answer, without a
\* provider call and without a usage record.
C5_CacheHitPath ==
    [][ (/\ ValidComplete(resp)
         /\ resp.upstream_ok
         /\ resp.request.temperature <= Threshold
         /\ calls'.requests = calls.requests + 1
         /\ resp'.endpoint = "complete"
         /\ ~Falsy(resp'.x_user_id)
         /\ resp'.request = resp.request
         /\ resp'.at - resp.at <= ttl_seconds)
        => (/\ resp'.answer.status = 200
            /\ resp'.answer = resp.answer
            /\ resp'.completeCalls = 0
            /\ resp'.trackCalls = 0
            /\ resp'.ledgerRows = 0) ]_vars

\* C6 (no caching above the threshold): every POST /complete with temperature
\* above 0.3 (caller identity, resolvable provider) invokes the provider once
\* and leaves size() unchanged.
C6_HighTemperatureAlwaysCallsProvider ==
    (ValidComplete(resp) /\ resp.request.temperature > Threshold)
    => /\ resp.completeCalls = 1
       /\ size(cache) = resp.sizeBefore

(***************************************************************************)
(* Claims about OpenAIProvider.stream                                      *)
(***************************************************************************)
Terminal(type) == type \in {"end", "error"}

\* C7 (stream termination): the chunks yielded by OpenAIProvider.stream are
\* token chunks up to the last one; once the generator has finished, the last
\* chunk is an end or an error chunk; the generator never raises to its consumer.
C7_StreamTermination ==
    /\ \A i \in 1..(Len(chunks) - 1) : chunks[i].type = "token"
    /\ gen.pc # "raised"
    /\ gen.pc \in {"yield_end", "yield_error", "yield_setup_error", "done"}
       => Len(chunks) >= 1 /\ Terminal(chunks[Len(chunks)].type)

\* C7 witness: the upstream failed mid-stream, after two tokens
C7_Witness ==
    /\ gen.pc = "done"
    /\ Len(chunks) = 3
    /\ chunks[1].type = "token"
    /\ chunks[2].type = "token"
    /\ chunks[3].type = "error"

(***************************************************************************)
(* Claims about POST /complete/stream                                      *)
(***************************************************************************)
\* C8 (no event after the terminal event): among the events generate_stream
\* has emitted, only the last can be an end or an error event.
C8_AtMostOneTerminalEvent ==
    \A i \in 1..(Len(sse.events) - 1) : ~Terminal(sse.events[i].type)

\* C8 witness: a response to an unknown provider id ended after its error event
C8_Witness ==
    /\ sse.pc = "done"
    /\ ~Resolvable(sse.request.provider)
    /\ Len(sse.events) = 1
    /\ sse.events[1].type = "error"

\* C9 (the stream always finishes with a terminal event): a streaming response
\* that was opened eventually finishes, and a finished response has emitted a
\* terminal event last.
C9_StreamFinishesWithTerminal ==
    /\ [](sse.pc = "done" => Len(sse.events) >= 1
                             /\ Terminal(sse.events[Len(sse.events)].type))
    /\ (sse.pc \notin {"idle", "done"}) ~> (sse.pc = "done")

\* C9 witness: a response for a resolvable provider finished after its error event
C9_Witness ==
    /\ sse.pc = "done"
    /\ Resolvable(sse.request.provider)
    /\ Len(sse.events) >= 1
    /\ sse.events[Len(sse.events)].type = "error"

\* C10 (streaming usage recording): a finished streaming response for a
\* resolvable provider whose upstream stream ran to its end has forwarded an end
\* event and then invoked the Usage Recorder exactly once with the usage of that
\* event; one whose upstream stream failed has forwarded an error event and
\* has not invoked the Usage Recorder.
C10_StreamingUsage ==
    (sse.pc = "done" /\ Resolvable(sse.request.provider))
    => LET last == sse.events[Len(sse.events)] IN
       IF sse.upstream_ok
       THEN /\ last.type = "end"
            /\ Len(sse.tracked) = 1
            /\ UsageDict(sse.tracked[1]) = last.usage
       ELSE /\ last.type = "error"
            /\ sse.tracked = <<>>

\* C11 (exceptions before the first chunk): a streaming response that ended
\* without the provider having produced a chunk (provider resolution failed, or
\* starting the stream failed) was opened with status 200, consists of exactly
\* one error event, and wrote no usage record.
C11_PreStreamException ==
    (sse.pc = "done" /\ ~sse.cancelled /\ sse.provided = <<>>)
    => /\ sse.status = 200
       /\ Len(sse.events) = 1
       /\ sse.events[1].type = "error"
       /\ sse.tracked = <<>>
       /\ Len(ledger) = sse.ledgerBefore

\* C11 witness: no provider is registered and the request names none: the
\* response is the one error event "No providers available"
C11_Witness ==
    /\ sse.pc = "done"
    /\ sse.request.provider = None
    /\ providers = EmptyDict
    /\ sse.status = 200
    /\ sse.events = <<[type |-> "error", content |-> "No providers available"]>>
    /\ ledger = <<>>

\* the events that forwarding a sequence of StreamChunks writes
ChunkEvents(cs) == [i \in 1..Len(cs) |-> ChunkEvent(cs[i])]

\* C12 (chunk order): in a streaming response for a resolvable provider the
\* events emitted so far are exactly the chunks the provider's stream has
\* yielded so far, in its order, one event per chunk, and a finished response
\* has forwarded the provider's chunks up to and including its terminal chunk.
C12_ChunkOrder ==
    (sse.pc # "idle" /\ ~sse.cancelled /\ Resolvable(sse.request.provider))
    => /\ sse.events = ChunkEvents(sse.provided)
       /\ sse.pc = "done" => /\ Len(sse.provided) >= 1
                             /\ Terminal(sse.provided[Len(sse.provided)].type)

\* C13 (cancellation): once the caller has disconnected, the response is
\* finished, nothing further is pulled from the provider or emitted, and no
\* usage record was written for it; a response records usage only after the
\* provider's end chunk.
C13_Cancellation ==
    /\ [](sse.pc # "idle" /\ sse.cancelled
            => /\ sse.pc = "done"
               /\ sse.tracked = <<>>
               /\ Len(ledger) = sse.ledgerBefore)
    /\ [](sse.pc # "idle" /\ sse.tracked # <<>>
            => \E i \in 1..Len(sse.provided) : sse.provided[i].type = "end")
    /\ [][(sse.pc # "idle" /\ sse.cancelled /\ sse'.cancelled)
            => (sse' = sse /\ ledger' = ledger /\ calls'.stream = calls.stream
                /\ calls'.track = calls.track)]_vars

\* C13 witness: the caller disconnected while the response was suspended at
\* an emitted event
C13_Witness ==
    /\ sse.pc = "done"
    /\ sse.cancelled
    /\ Len(sse.events) = 1
    /\ sse.tracked = <<>>
    /\ ledger = <<>>

(***************************************************************************)
(* Claims about the three endpoints                                        *)
(***************************************************************************)
\* the step is a POST /complete or a POST /embeddings that was answered
AnsweredStep(endpoint) ==
    /\ calls'.requests = calls.requests + 1
    /\ sse' = sse
    /\ resp'.endpoint = endpoint

\* the step is a pull of the open streaming response
PullStep ==
    /\ sse.pc \notin {"idle", "done"}
    /\ calls'.requests = calls.requests
    /\ sse' # sse

\* C14 (usage isolation): whether or not the ledger insert fails, a POST
\* /complete and a POST /embeddings get the answer (status and body) they get
\* when the insert succeeds, and a pull of a streaming response emits the events
\* it emits when the insert succeeds: nothing escapes UsageTracker.track.
C14_UsageIsolation ==
    [][ /\ AnsweredStep("complete")
           => resp'.answer = complete(resp'.request, resp'.x_user_id, None,
                                      resp'.upstream_ok, TRUE).answer
        /\ AnsweredStep("embeddings")
           => resp'.answer = create_embedding(resp'.request, resp'.x_user_id, None,
                                              resp'.upstream_ok, TRUE).answer
        /\ PullStep
           => \E f \in StreamFeeds :
                 sse'.events = generate_stream([sse EXCEPT !.insert_ok = TRUE], ledger, calls,
                                               f.construct_ok, f.items).g.events ]_vars

\* C14 witness: a POST /embeddings whose usage insert failed was answered 200
C14_Witness ==
    /\ resp.endpoint = "embeddings"
    /\ ~resp.insert_ok
    /\ resp.trackCalls = 1
    /\ resp.ledgerRows = 0
    /\ resp.answer.status = 200
    /\ resp.answer.embedding = UpstreamEmbedding

\* C15 (missing caller identity): a POST /complete, /complete/stream or
\* /embeddings whose X-User-ID is absent or empty is answered 400 and leaves the
\* cache, the ledger and the provider and usage call counts unchanged; no
\* streaming response is ever opened without a caller identity.
C15_MissingIdentity ==
    /\ [](sse.pc # "idle" => sse.x_user_id \notin {None, Str("")})
    /\ [][ (/\ calls'.requests = calls.requests + 1
            /\ sse' = sse
            /\ resp'.x_user_id \in {None, Str("")})
           => /\ resp'.answer.status = 400
              /\ cache' = cache
              /\ ledger' = ledger
              /\ calls'.complete = calls.complete
              /\ calls'.stream = calls.stream
              /\ calls'.embed = calls.embed
              /\ calls'.track = calls.track ]_vars

\* C15 witness: a POST /complete/stream without X-User-ID was answered 400
\* while the ledger held a row of an earlier request, which is still there
C15_Witness ==
    /\ resp.endpoint = "stream"
    /\ resp.x_user_id = None
    /\ resp.answer.status = 400
    /\ Len(ledger) = 1

(***************************************************************************)
(* Claims about POST /complete and POST /embeddings: error mapping          *)
(***************************************************************************)
\* C16 (unknown provider): every POST /complete with a caller identity that
\* names a provider id absent from the Router's mapping is answered 400.
C16_UnknownProviderBadRequest ==
    (/\ resp.endpoint = "complete"
     /\ resp.x_user_id \notin {None, Str("")}
     /\ resp.request.provider # None
     /\ resp.request.provider.str \notin DOMAIN providers)
    => resp.answer.status = 400

\* C16 witness: "nonexistent" was named while OpenAI is registered; the answer
\* is 400 with the Router's message
C16_Witness ==
    /\ resp.endpoint = "complete"
    /\ resp.x_user_id = Str("user-1")
    /\ resp.request.provider = Str("nonexistent")
    /\ "openai" \in DOMAIN providers
    /\ resp.answer = HTTPException(400, "Provider 'nonexistent' not found or not enabled")

\* C17 (upstream failure): a POST /complete (cache miss) or POST /embeddings
\* with a caller identity and a resolvable provider whose upstream call fails
\* is answered with a 500-class status, and creates no cache entry and no
\* usage record.
C17_UpstreamFailureIs500 ==
    (/\ resp.endpoint \in {"complete", "embeddings"}
     /\ resp.x_user_id \notin {None, Str("")}
     /\ Resolvable(resp.request.provider)
     /\ ~resp.hit
     /\ ~resp.upstream_ok)
    => /\ resp.answer.status >= 500
       /\ size(cache) = resp.sizeBefore
       /\ resp.trackCalls = 0
       /\ resp.ledgerRows = 0

(***************************************************************************)
(* Claims about ProviderRouter                                             *)
(***************************************************************************)
\* C18 (unknown id): get_provider(id) for an id that is not a key of the
\* mapping raises the not-found ValueError, under every settings object, also
\* for the ids of vendors that are enabled and configured but not registered.
C18_UnknownIdNotFound ==
    (/\ ret.op = "get_provider"
     /\ ret.provider_id # None
     /\ ret.provider_id.str \notin DOMAIN providers)
    => /\ ret.result.raised = "ValueError"
       /\ ret.result.msg = "Provider '" \o ret.provider_id.str \o "' not found or not enabled"

\* C18 witness: "anthropic" was asked for while Anthropic is enabled and has a key
C18_Witness ==
    /\ ret.op = "get_provider"
    /\ ret.provider_id = Str("anthropic")
    /\ settings.anthropic_enabled
    /\ settings.anthropic_api_key # None
    /\ ret.result.raised = "ValueError"

\* the vendors: their id in the mapping, their enabled flag, their credential
Vendors ==
    { [id |-> "openai", enabled |-> settings.openai_enabled,
       credential |-> settings.openai_api_key],
      [id |-> "anthropic", enabled |-> settings.anthropic_enabled,
       credential |-> settings.anthropic_api_key],
      [id |-> "gemini", enabled |-> settings.google_enabled,
       credential |-> settings.google_api_key] }

\* C19 as stated (registration): each vendor's id is in the mapping iff the
\* vendor is enabled and its credential is present.
C19_RegisteredIffEnabledAndConfigured ==
    \A v \in Vendors :
        v.id \in DOMAIN providers <=> (v.enabled /\ v.credential \notin {None, Str("")})

\* C19 amended: "openai" is in the mapping iff OpenAI is enabled and its key is
\* present; "anthropic" and "gemini" are never in the mapping.
C19_OnlyPrimaryRegistered ==
    /\ "openai" \in DOMAIN providers
       <=> (settings.openai_enabled /\ settings.openai_api_key \notin {None, Str("")})
    /\ DOMAIN providers \subseteq {"openai"}

\* C19 witness: a router was used whose settings have OpenAI disabled with a
\* key set and Anthropic enabled with a key set: nothing is registered
C19_Witness ==
    /\ ret.op # "none"
    /\ ~settings.openai_enabled
    /\ settings.openai_api_key = Str("sk-live-0123456789abcdef")
    /\ settings.anthropic_enabled
    /\ settings.anthropic_api_key # None
    /\ providers = EmptyDict

\* C20 (default determinism): every get_provider(None) that returned has
\* returned the one provider instance registered under "openai".
C20_DefaultDeterminism ==
    ret.op # "none"
    => /\ Cardinality(ret.defaults) <= 1
       /\ \A p \in ret.defaults : "openai" \in DOMAIN providers /\ p = providers["openai"]

\* C20 witness: the third call is a get_provider(None) that returned a
\* provider, after earlier calls that also did
C20_Witness ==
    /\ ret.op = "get_provider"
    /\ ret.provider_id = None
    /\ ret.n = 3
    /\ ret.result.raised = NoException
    /\ ret.defaults = {ret.result.value}

\* the fixed vendor precedence order, primary vendor first
VendorPrecedence == <<"openai", "anthropic", "gemini">>

\* the registered ids in precedence order
RegisteredInOrder == SelectSeq(VendorPrecedence, LAMBDA id : id \in DOMAIN providers)

\* C21 (default resolution): get_provider(None) returns the first registered
\* provider in the vendor precedence order, and raises the "No providers
\* available" ValueError iff the mapping is empty.
C21_DefaultResolution ==
    (ret.op = "get_provider" /\ ret.provider_id = None)
    => /\ (/\ ret.result.raised = "ValueError"
           /\ ret.result.msg = "No providers available") <=> (DOMAIN providers = {})
       /\ ret.result.raised # NoException => DOMAIN providers = {}
       /\ DOMAIN providers # {}
          => /\ ret.result.raised = NoException
             /\ ret.result.value = providers[Head(RegisteredInOrder)]

\* C21 witness: get_provider(None) raised under settings where a secondary
\* vendor is enabled and configured while OpenAI is disabled
C21_Witness ==
    /\ ret.op = "get_provider"
    /\ ret.provider_id = None
    /\ ret.result.raised = "ValueError"
    /\ ret.result.msg = "No providers available"
    /\ settings.google_enabled
    /\ settings.google_api_key # None
    /\ ~settings.openai_enabled

\* what the health check of provider id amounted to at the last call: its
\* result, or false when it raised
HealthAtCall(id) ==
    IF ret.health[id].raised # NoException THEN FALSE ELSE ret.health[id].value

\* C22 as stated (router list): the listing of ProviderRouter.list_providers
\* reports, for each registered provider, healthy equal to the outcome of
\* that provider's health check at the time of the call (false if it raises).
C22_RouterListReportsHealth ==
    ret.op = "list_providers"
    => /\ ret.result.raised = NoException
       /\ DOMAIN ret.result.value = DOMAIN providers
       /\ \A id \in DOMAIN providers : ret.result.value[id].healthy = HealthAtCall(id)

\* C22 amended (GET /providers): the listing answered by GET /providers has
\* one entry per registered provider whose healthy is the outcome of that
\* provider's health check at the time of the call, false when the check
\* raises; the answer is 200 whichever checks raise; the listing of
\* ProviderRouter.list_providers itself reports healthy false throughout.
C22_EndpointListReportsHealth ==
    /\ ret.op = "GET /providers"
       => /\ ret.result.raised = NoException
          /\ ret.result.value.status = 200
          /\ Len(ret.result.value.providers) = Cardinality(DOMAIN providers)
          /\ \A id \in DOMAIN providers :
                \E i \in 1..Len(ret.result.value.providers) :
                    /\ ret.result.value.providers[i].id = id
                    /\ ret.result.value.providers[i].name = providers[id].name
                    /\ ret.result.value.providers[i].healthy = HealthAtCall(id)
    /\ ret.op = "list_providers"
       => \A id \in DOMAIN providers : ~ret.result.value[id].healthy

\* C22 witness: GET /providers was answered for two registered providers, the
\* health check of one raising and that of the other returning true
C22_Witness ==
    /\ ret.op = "GET /providers"
    /\ DOMAIN providers = {"openai", "anthropic"}
    /\ ret.health["anthropic"].raised = "RuntimeError"
    /\ ret.health["openai"] = Return(TRUE)
    /\ ret.result.raised = NoException
    /\ ret.result.value.providers[1].healthy
    /\ ~ret.result.value.providers[2].healthy

\* C23 (health of one provider): check_provider_health(id) raises nothing; it
\* returns false for an id that is not registered; for a registered id it
\* returns what the provider's health check returned, or false if it raised.
C23_HealthOfProvider ==
    ret.op = "check_provider_health"
    => /\ ret.result.raised = NoException
       /\ ret.provider_id.str \notin DOMAIN providers => ret.result.value = FALSE
       /\ ret.provider_id.str \in DOMAIN providers
          => LET outcome == ret.health[ret.provider_id.str] IN
             /\ outcome.raised = NoException => ret.result.value = outcome.value
             /\ outcome.raised # NoException => ret.result.value = FALSE

\* C23 witness: the health of a registered provider was asked for and its
\* health check raised
C23_Witness ==
    /\ ret.op = "check_provider_health"
    /\ ret.provider_id.str \in DOMAIN providers
    /\ ret.health[ret.provider_id.str].raised = "RuntimeError"
    /\ ret.result = Return(FALSE)

(***************************************************************************)
(* Claims about the placeholder providers                                  *)
(***************************************************************************)
\* C24 (unimplemented providers): every complete, stream or embed of
\* AnthropicProvider or GeminiProvider fails with NotImplementedError, no
\* result and no chunk is returned, and health_check returns false.
C24_StubsNotImplemented ==
    /\ ret.op \in {"complete", "stream", "embed"}
       => ret.result.raised = "NotImplementedError"
    /\ ret.op = "stream" => ret.chunks = <<>>
    /\ ret.op = "health_check" => ret.result = Return(FALSE)

(***************************************************************************)
(* Claims about UsageTracker                                               *)
(***************************************************************************)
\* the static table of settings.cost_rates as (input, output) rates per 1K
\* tokens, in units of 1e-6 USD
StaticTable ==
    [m \in TableModels |->
        CASE m = "gpt-4o-mini" -> <<150, 600>>
          [] m = "gpt-4o" -> <<5000, 15000>>
          [] m = "text-embedding-ada-002" -> <<100, 0>>
          [] m = "claude-3-haiku-20240307" -> <<250, 1250>>
          [] m = "gemini-1.5-flash" -> <<75, 300>>]

RetKey == sha256(json_dumps(ret.messages, ret.temperature))

\* C28 (last write wins): a set(M, R2, t), t <= 0.3, that follows a
\* set(M, R1, t) leaves one entry for the key, holding R2 and the time of the
\* second set; size() is what it was before the second set and get(M, t)
\* returns R2.
C28_LastWriteWins ==
    [][(/\ ret.op = "set"
        /\ ret'.op = "set"
        /\ ret'.n = ret.n + 1
        /\ ret'.messages = ret.messages
        /\ ret'.temperature = ret.temperature
        /\ ret.temperature <= Threshold)
       => /\ RetKey \in DOMAIN cache /\ RetKey \in DOMAIN cache'
          /\ size(cache') = size(cache)
          /\ cache'[RetKey].completion = lastSet'[<<ret.messages, ret.temperature>>].completion
          /\ cache'[RetKey].timestamp = now
          /\ GetResult(cache', ret.messages, ret.temperature, now)
               = lastSet'[<<ret.messages, ret.temperature>>].completion]_vars

\* C28 witness: the second call, a set of R2 one hour after the first call,
\* found one entry and left one entry, which holds R2 and the later time
C28_Witness ==
    /\ ret.op = "set"
    /\ ret.n = 2
    /\ ret.temperature <= Threshold
    /\ ret.sizeBefore = 1
    /\ size(cache) = 1
    /\ ret.at = TickSeconds
    /\ RetKey \in DOMAIN cache
    /\ cache[RetKey] = [completion |-> [content |-> "R2"], timestamp |-> TickSeconds]

\* C29 (expiry boundary): a get finds a stored entry expired exactly when
\* now - created_at > ttl: it then returns absent and the entry is gone; at an
\* age of at most ttl, exactly ttl included, it returns the stored result and
\* removes nothing.
C29_ExpiryBoundary ==
    (/\ ret.op = "get"
     /\ ret.temperature <= Threshold
     /\ lastSet[<<ret.messages, ret.temperature>>] # None)
    => LET created_at == lastSet[<<ret.messages, ret.temperature>>].at
           stored == lastSet[<<ret.messages, ret.temperature>>].completion
       IN  /\ (ret.result = None) <=> (ret.at - created_at > ttl_seconds)
           /\ (RetKey \notin DOMAIN cache) <=> (ret.at - created_at > ttl_seconds)
           /\ ret.at - created_at = ttl_seconds
              => /\ ret.result = stored
                 /\ cache[RetKey].timestamp = created_at
                 /\ size(cache) = ret.sizeBefore

\* C29 witness: a get at age exactly ttl returned the stored result
C29_Witness ==
    /\ ret.op = "get"
    /\ ret.temperature <= Threshold
    /\ lastSet[<<ret.messages, ret.temperature>>] # None
    /\ ret.at - lastSet[<<ret.messages, ret.temperature>>].at = ttl_seconds
    /\ ret.result = lastSet[<<ret.messages, ret.temperature>>].completion
    /\ RetKey \in DOMAIN cache

\* C30 (lazy eviction): a step removes a key from the map only if it is a
\* clear(), or a get of that key whose entry is older than ttl, which removes
\* that key and no other; the passage of time and set or get on other keys
\* remove nothing.
C30_LazyEviction ==
    [][\A k \in DOMAIN cache :
          k \notin DOMAIN cache'
          => /\ ret'.n = ret.n + 1
             /\ \/ ret'.op = "clear"
                \/ /\ ret'.op = "get"
                   /\ k = sha256(json_dumps(ret'.messages, ret'.temperature))
                   /\ now - cache[k].timestamp > ttl_seconds
                   /\ DOMAIN cache' = DOMAIN cache \ {k}
                   /\ \A j \in DOMAIN cache' : cache'[j] = cache[j]]_vars

\* C30 witness: after a get of another key, size() counts an entry that is
\* older than ttl
C30_Witness ==
    /\ ret.op = "get"
    /\ ret.temperature <= Threshold
    /\ \E k \in DOMAIN cache :
          /\ k # RetKey
          /\ now - cache[k].timestamp > ttl_seconds
    /\ size(cache) >= 1

(***************************************************************************)
(* Claims about concurrent use of the cache                                *)
(***************************************************************************)
\* C26 (atomic get and set): however the coroutines interleave, no coroutine
\* is inside get or set while another is, the entry a get looked up is still
\* the stored one when it tests and evicts it, no call fails (no KeyError
\* from the eviction), and every key of the map holds one entry of a
\* completion and a timestamp, those of one set call.
C26_AtomicCacheOps ==
    /\ \A h, g \in TaskIds :
          (h # g /\ tasks.of[h].pc # "idle") => tasks.of[g].pc = "idle"
    /\ \A h \in TaskIds :
          /\ tasks.of[h].pc = "get:65"
             => /\ tasks.of[h].cache_key \in DOMAIN cache
                /\ cache[tasks.of[h].cache_key] = tasks.of[h].entry
          /\ (tasks.of[h].pc = "idle" /\ tasks.of[h].op # "none")
             => tasks.of[h].result.raised = NoException
    /\ \A k \in DOMAIN cache :
          /\ DOMAIN cache[k] = {"completion", "timestamp"}
          /\ \E p \in DOMAIN lastSet :
                /\ lastSet[p] # None
                /\ k = sha256(json_dumps(p[1], p[2]))
                /\ cache[k] = [completion |-> lastSet[p].completion,
                               timestamp |-> lastSet[p].at]

\* C26 witness: one coroutine's get evicted an expired entry of a key that
\* the other coroutine had set, while an entry of another key stays stored
C26_Witness ==
    \E h, g \in TaskIds :
        /\ h # g
        /\ tasks.of[h].op = "get"
        /\ tasks.of[h].pc = "idle"
        /\ tasks.of[h].evicted
        /\ tasks.of[g].op = "set"
        /\ tasks.of[g].pc = "idle"
        /\ tasks.of[g].n = 2
        /\ size(cache) = 1

\* both handlers have returned, having handled the same cache-eligible
\* request of an identified caller for a resolvable provider, and the cache
\* lookup of both returned None
BothMissed ==
    /\ \A h \in TaskIds : tasks[h].pc = "done" /\ tasks[h].missed
    /\ tasks[1].request = tasks[2].request
    /\ tasks[1].request.temperature <= Threshold
    /\ \A h \in TaskIds : ~Falsy(tasks[h].x_user_id)
    /\ get_provider(providers, tasks[1].request.provider).raised = NoException

\* C27 (no at-most-once): two identical cache-eligible requests whose lookups
\* both missed have caused two calls of the provider and, when the provider
\* answered both, two usage records; the cache then holds one entry for the
\* key, the one written last.
C27_BothMissTwoCalls ==
    BothMissed
    => /\ calls.complete = 2
       /\ (\A h \in TaskIds : tasks[h].answer.status = 200)
          => /\ calls.track = 2
             /\ size(cache) = 1
             /\ \A k \in DOMAIN cache :
                   /\ k = sha256(json_dumps(tasks[1].request.messages,
                                            tasks[1].request.temperature))
                   /\ \E h \in TaskIds :
                         /\ cache[k].timestamp = tasks[h].storedAt
                         /\ \A g \in TaskIds : tasks[g].storedAt <= tasks[h].storedAt

(***************************************************************************)
(* Claims about CompletionCache: size and clear                            *)
(***************************************************************************)
\* C31 (size and clear): size() is the number of distinct stored requests
\* (each key is the fingerprint of one eligible request); a clear() leaves
\* size() 0 and every get absent; a get of a request that was not set since
\* the last clear() returns absent.
C31_SizeAndClear ==
    /\ size(cache) = Cardinality({p \in MessageLists \X Temperatures :
                                     /\ p[2] <= Threshold
                                     /\ sha256(json_dumps(p[1], p[2])) \in DOMAIN cache})
    /\ ret.op = "clear"
       => /\ size(cache) = 0
          /\ \A m \in MessageLists, t \in Temperatures : GetResult(cache, m, t, now) = None
    /\ (ret.op = "get" /\ lastSet[<<ret.messages, ret.temperature>>] = None)
       => ret.result = None

\* C31 witness: the third call was a clear() of a map holding two entries
C31_Witness ==
    /\ ret.op = "clear"
    /\ ret.n = 3
    /\ ret.sizeBefore = 2
    /\ size(cache) = 0

(***************************************************************************)
(* Claims about the handlers and the cache, the mapping and the ledger     *)
(***************************************************************************)
\* C32 (streaming bypasses the cache): a step of a streaming request (its
\* acceptance or rejection, a pull of its response) leaves the cache map as it
\* is, and a streaming response for a resolvable provider that has been
\* pulled has called provider.stream, whatever the cache holds.
C32_StreamBypassesCache ==
    [][ /\ (sse' # sse \/ (calls'.requests = calls.requests + 1 /\ resp'.endpoint = "stream"))
           => cache' = cache
        /\ (sse' # sse /\ sse'.pc \notin {"idle", "start"}
            /\ Resolvable(sse'.request.provider))
           => /\ sse'.stream # None
              /\ calls'.stream >= 1 ]_vars

\* C33 (the mapping is fixed): no step of get_provider, list_providers,
\* check_provider_health or check_all_health adds, removes or replaces an
\* entry of the providers mapping: it stays the one __init__ built from the
\* settings. The handlers reach the mapping through these operations only.
C33_MappingFixed ==
    [][ /\ providers' = providers
        /\ providers' = ProviderRouter(settings') ]_vars

\* C33 witness: three operations were made on a router with OpenAI
\* registered, the last a get_provider of an id that is not registered
C33_Witness ==
    /\ ret.op = "get_provider"
    /\ ret.n = 3
    /\ ret.provider_id = Str("gemini")
    /\ ret.result.raised = "ValueError"
    /\ DOMAIN providers = {"openai"}

\* C34 (failed requests leave no trace): a POST /complete answered with an
\* error status leaves the cache map and the ledger as they were; every entry
\* of the cache holds the content of a provider.complete call that returned.
C34_FailureLeavesNoTrace ==
    /\ [](\A k \in DOMAIN cache :
             /\ calls.complete >= 1
             /\ cache[k].completion # None
             /\ cache[k].completion.content = UpstreamContent)
    /\ [][(AnsweredStep("complete") /\ resp'.answer.status >= 400)
          => /\ cache' = cache
             /\ ledger' = ledger
             /\ calls'.track = calls.track]_vars

\* C34 witness: the second request, an eligible POST /complete of an
\* identified caller for a registered provider, was answered with an error
\* status
C34_Witness ==
    /\ resp.endpoint = "complete"
    /\ calls.requests = 2
    /\ ~Falsy(resp.x_user_id)
    /\ resp.request.provider = Str("openai")
    /\ providers # EmptyDict
    /\ resp.request.temperature <= Threshold
    /\ resp.answer.status >= 400
    /\ size(cache) = 0
    /\ resp.ledgerRows = 0

\* C35 (hit decided by messages and temperature alone): a POST /complete that
\* follows, within ttl, an answered POST /complete with the same messages and
\* the same temperature <= 0.3 but another provider id, model id or max_tokens
\* is answered 200 with the provider, model and content given to the first,
\* without a provider call.
C35_HitIgnoresProviderAndModel ==
    [][ (/\ ValidComplete(resp)
         /\ resp.upstream_ok
         /\ resp.request.temperature <= Threshold
         /\ calls'.requests = calls.requests + 1
         /\ resp'.endpoint = "complete"
         /\ ~Falsy(resp'.x_user_id)
         /\ resp'.request.messages = resp.request.messages
         /\ resp'.request.temperature = resp.request.temperature
         /\ resp'.request # resp.request
         /\ resp'.at - resp.at <= ttl_seconds)
        => (/\ resp'.answer.status = 200
            /\ resp'.answer = resp.answer
            /\ resp'.completeCalls = 0) ]_vars

\* C36 (reads do not refresh): a get that returns a stored result leaves the
\* cache map as it was, and the timestamp of every entry is the instant of the
\* most recent set of its key, whatever was read since.
C36_ReadsDoNotRefresh ==
    /\ [](\A p \in MessageLists \X Temperatures :
             (p[2] <= Threshold /\ sha256(json_dumps(p[1], p[2])) \in DOMAIN cache)
             => /\ lastSet[p] # None
                /\ cache[sha256(json_dumps(p[1], p[2]))].timestamp = lastSet[p].at)
    /\ [][(ret'.n = ret.n + 1 /\ ret'.op = "get" /\ ret'.result # None)
          => cache' = cache]_vars

\* C36 witness: a read, the third operation on the cache and one ttl after the
\* set of its key, returned the stored result and the entry still carries the
\* instant of the set
C36_Witness ==
    /\ ret.op = "get" /\ ret.n = 3
    /\ ret.temperature <= Threshold
    /\ ret.result # None
    /\ lastSet[<<ret.messages, ret.temperature>>] # None
    /\ size(cache) = 1
    /\ ret.at - lastSet[<<ret.messages, ret.temperature>>].at = ttl_seconds
    /\ cache[RetKey].timestamp = lastSet[<<ret.messages, ret.temperature>>].at

\* C37 (ledger invariant): a step adds at most one usage record, and only the
\* step of a POST /embeddings answered 200 after one embed call, of a
\* POST /complete answered 200 after one complete call that was not a cache
\* hit, or of a streaming response whose provider stream had delivered an end
\* chunk with usage; a streaming response records at most once; the records
\* never outnumber the Usage Recorder calls, nor these the provider calls.
C37_LedgerInvariant ==
    /\ [](/\ Len(ledger) <= calls.track
          /\ calls.track <= calls.complete + calls.embed + calls.stream
          /\ sse.pc # "idle" => Len(sse.tracked) <= 1)
    /\ [][ /\ ledger' = ledger \/ Len(ledger') = Len(ledger) + 1
           /\ ledger' # ledger
              => \/ /\ AnsweredStep("embeddings")
                    /\ resp'.answer.status = 200
                    /\ resp'.embedCalls = 1
                 \/ /\ AnsweredStep("complete")
                    /\ resp'.answer.status = 200
                    /\ resp'.completeCalls = 1
                    /\ ~resp'.hit
                 \/ /\ PullStep
                    /\ sse'.pc = "done"
                    /\ sse'.usage_data # None
                    /\ \E i \in 1..Len(sse'.provided) : sse'.provided[i].type = "end"
                    /\ Len(sse'.tracked) = 1 ]_vars

\* C37 witness: two requests, both reaching the provider's embed, one of them
\* failing there: one usage record
C37_Witness ==
    /\ calls.requests = 2
    /\ calls.embed = 2
    /\ resp.endpoint = "embeddings"
    /\ resp.answer.status = 400
    /\ calls.track = 1
    /\ Len(ledger) = 1


\* the chunks enqueued so far, in the order the consumer gets them
Enqueued == callback.got \o callback.queue

\* the usage an end chunk reports for an LLMResult: each reported count, 0 for
\* a count that is not reported
ReportedUsage(response) ==
    LET reported == IF "token_usage" \in DOMAIN response.llm_output
                       /\ response.llm_output.token_usage # NullValue
                    THEN response.llm_output.token_usage ELSE EmptyDict
        count(field) == IF field \in DOMAIN reported THEN reported[field] ELSE 0
    IN  Usage(count("prompt_tokens"), count("completion_tokens"), count("total_tokens"))

\* C38 (StreamingCallback): the i-th chunk the consumer gets is the chunk of
\* the i-th callback invocation and every invocation has one: a token chunk
\* with the token as content, an end chunk with the reported usage (zeros for
\* what is not reported, never absent), an error chunk with the error text.
C38_OneChunkPerInvocation ==
    /\ Len(Enqueued) = Len(callback.invocations)
    /\ \A i \in 1..Len(Enqueued) :
          LET chunk == Enqueued[i]
              call == callback.invocations[i]
          IN  /\ call.method = "on_llm_new_token"
                 => chunk.type = "token" /\ chunk.content = call.arg
              /\ call.method = "on_llm_end"
                 => /\ chunk.type = "end"
                    /\ chunk.usage # None
                    /\ chunk.usage = ReportedUsage(call.arg)
              /\ call.method = "on_llm_error"
                 => chunk.type = "error" /\ chunk.content = call.arg

\* C39 (GET /providers/{id}): an id absent from the registration mapping is
\* answered 404; a registered id is answered 200 with that provider's id, name
\* and models, enabled, and healthy equal to what its health check gives at
\* the call, false when the check raises.
C39_GetProviderEndpoint ==
    ret.op = "GET /providers/{provider_id}"
    => LET id == ret.provider_id.str IN
       /\ id \notin DOMAIN providers => ret.result.status = 404
       /\ id \in DOMAIN providers
          => /\ ret.result.status = 200
             /\ ret.result.body.id = id
             /\ ret.result.body.name = providers[id].name
             /\ ret.result.body.enabled
             /\ ret.result.body.models = supported_models(providers[id])
             /\ ret.result.body.healthy = HealthAtCall(id)

\* C39 witness: the endpoint, as the second call made, answered for the one
\* registered provider, whose health check gave true
C39_Witness ==
    /\ ret.op = "GET /providers/{provider_id}"
    /\ ret.n = 2
    /\ ret.provider_id = Str("openai")
    /\ DOMAIN providers = {"openai"}
    /\ ret.health["openai"] = Return(TRUE)
    /\ ret.result.status = 200
    /\ ret.result.body.healthy

\* the usage ledger answered the probe and, if OpenAI is enabled, its key is
\* set and is not the placeholder
Prepared(probe) ==
    /\ probe.raised = NoException
    /\ settings.openai_enabled
       => /\ settings.openai_api_key # None
          /\ settings.openai_api_key # Str("")
          /\ settings.openai_api_key.str \notin PlaceholderKeys

====
